---- MODULE Spec2Model ----
(***************************************************************************)
(* terzo-posto-server: the supply cost resolver and the supply routes      *)
(* (src/routes/supplies.js) and the order sequencer of the PostgreSQL      *)
(* order route (src/routes/orders.js, lines 1-294).                        *)
(*                                                                         *)
(* Numbers.  JavaScript numbers are modelled as exact rationals: a cost is *)
(* a pair numerator/denominator in lowest terms.  A nullable column or     *)
(* body field is the empty sequence (null / undefined) or a one-element    *)
(* sequence holding the number.                                            *)
(***************************************************************************)
EXTENDS Integers, Sequences, FiniteSets, TLC

Null == <<>>

Some(v) == <<v>>

\* ------------------------------------------------------------------------
\* Supplies: rows of the supplies table and the cost resolver
\* ------------------------------------------------------------------------

\* The supply ids requests and recipe lines may name.
SupplyIds == {"A", "B", "C"}

VALID_UNITS == {"g", "ml", "unidad"}

\* A slot of the supplies table that holds no row.
NoRow == [type |-> "absent"]

RECURSIVE GCD(_, _)
GCD(a, b) == IF b = 0 THEN a ELSE GCD(b, a % b)

\* JavaScript a / b for a >= 0, b > 0, as a fraction in lowest terms.
Quot(a, b) ==
    LET g == GCD(a, b)
    IN  [k |-> "num", n |-> a \div g, d |-> b \div g]

\* `return null` of the resolver.
Unknown == [k |-> "null"]

\* `throw new Error('Circular reference in supply recipe')`.
CycleDetected == [k |-> "throw"]

Zero == Quot(0, 1)

\* normalizeRecipeLine: null when quantity or supplyId is missing.
normalizeRecipeLine(line) ==
    IF line.quantity = Null THEN Null
    ELSE IF line.supplyId = Null THEN Null
    ELSE Some([supplyId |-> line.supplyId[1], quantity |-> line.quantity[1]])

\* recipe.map(normalizeRecipeLine).filter(Boolean)
RECURSIVE NormalizeRecipe(_)
NormalizeRecipe(raw) ==
    IF raw = <<>> THEN <<>>
    ELSE normalizeRecipeLine(Head(raw)) \o NormalizeRecipe(Tail(raw))

\* The recipe column (TEXT): NULL, a JSON array of lines, or text that is not
\* a JSON array.  JSON.stringify of an array of lines gives JsonArray(lines).
JsonArray(lines) == [json |-> "array", lines |-> lines]

NotAnArray == [json |-> "other"]

\* parseRecipe: null for NULL, for text that does not parse and for JSON that
\* is not an array; otherwise the array.
parseRecipe(recipeJson) ==
    IF recipeJson = Null THEN Null
    ELSE IF recipeJson.json = "array" THEN Some(recipeJson.lines)
    ELSE Null

\* rowToSupplyInternal: the object the resolver walks.
rowToSupplyInternal(id, row) ==
    [id |-> id,
     name |-> row.name,
     type |-> row.type,
     unit |-> row.unit,
     purchase_price |-> row.purchase_price,
     purchase_quantity |-> row.purchase_quantity,
     recipe |-> IF parseRecipe(row.recipe) = Null THEN <<>>
                ELSE NormalizeRecipe(parseRecipe(row.recipe)[1]),
     yield_amount |-> row.yield_amount,
     yield_unit |-> row.yield_unit]

\* suppliesById as the handlers build it: one entry per row of the table.
SuppliesById(table) ==
    [id \in {i \in DOMAIN table : table[i] # NoRow} |-> rowToSupplyInternal(id, table[id])]

\* A mutant of AddScaled: the line quantity is not applied.
AddScaledNoQuantity(total, subCost, quantity) ==
    Quot(total.n * subCost.d + subCost.n * total.d, total.d * subCost.d)

\* total + subCost * quantity
AddScaled(total, subCost, quantity) ==
    Quot(total.n * subCost.d + subCost.n * quantity * total.d, total.d * subCost.d)

\* total / yield_amount
DivBy(total, amount) == Quot(total.n, total.d * amount)

\* A mutant of PurchasedCost: the price is multiplied by the quantity.
PurchasedCostMultiplies(supply) ==
    IF \/ supply.purchase_price = Null
       \/ supply.purchase_quantity = Null
       \/ supply.purchase_quantity[1] <= 0
    THEN Unknown
    ELSE Quot(supply.purchase_price[1] * supply.purchase_quantity[1], 1)

\* The purchased branch of getSupplyCostPerUnit.
PurchasedCost(supply) ==
    IF \/ supply.purchase_price = Null
       \/ supply.purchase_quantity = Null
       \/ supply.purchase_quantity[1] <= 0
    THEN Unknown
    ELSE Quot(supply.purchase_price[1], supply.purchase_quantity[1])

RECURSIVE getSupplyCostPerUnit(_, _, _)
RECURSIVE RecipeLoop(_, _, _, _, _)
RECURSIVE RecipeLoopSkipsMissing(_, _, _, _, _)
RECURSIVE RecipeLoopSharedVisited(_, _, _, _, _)

\* A mutant of RecipeLoop: the lines of a recipe share one visited set, and
\* an id stays in it after its line.
RecipeLoopSharedVisited(supply, suppliesById, visited, i, total) ==
    IF i > Len(supply.recipe) THEN DivBy(total, supply.yield_amount[1])
    ELSE LET line == supply.recipe[i]
         IN  IF line.supplyId \notin DOMAIN suppliesById THEN Unknown
             ELSE LET subCost == getSupplyCostPerUnit(suppliesById[line.supplyId],
                                                      suppliesById, visited)
                  IN  IF subCost.k = "throw" THEN CycleDetected
                      ELSE IF subCost.k = "null" THEN Unknown
                      ELSE RecipeLoopSharedVisited(supply, suppliesById,
                                                   visited \cup {line.supplyId},
                                                   i + 1,
                                                   AddScaled(total, subCost,
                                                             line.quantity))

\* A mutant of RecipeLoop: a line whose supply is missing is skipped.
RecipeLoopSkipsMissing(supply, suppliesById, visited, i, total) ==
    IF i > Len(supply.recipe) THEN DivBy(total, supply.yield_amount[1])
    ELSE LET line == supply.recipe[i]
         IN  IF line.supplyId \notin DOMAIN suppliesById
             THEN RecipeLoopSkipsMissing(supply, suppliesById, visited, i + 1, total)
             ELSE LET subCost == getSupplyCostPerUnit(suppliesById[line.supplyId],
                                                      suppliesById, visited)
                  IN  IF subCost.k = "throw" THEN CycleDetected
                      ELSE IF subCost.k = "null" THEN Unknown
                      ELSE RecipeLoopSkipsMissing(supply, suppliesById, visited, i + 1,
                                                  AddScaled(total, subCost, line.quantity))

\* The for loop over supply.recipe, from line i with the running total, and
\* the final division.  A throw of a recursive call propagates.
RecipeLoop(supply, suppliesById, visited, i, total) ==
    IF i > Len(supply.recipe) THEN DivBy(total, supply.yield_amount[1])
    ELSE LET line == supply.recipe[i]
         IN  IF line.supplyId \notin DOMAIN suppliesById THEN Unknown
             ELSE LET subCost == getSupplyCostPerUnit(suppliesById[line.supplyId],
                                                      suppliesById, visited)
                  IN  IF subCost.k = "throw" THEN CycleDetected
                      ELSE IF subCost.k = "null" THEN Unknown
                      ELSE RecipeLoop(supply, suppliesById, visited, i + 1,
                                      AddScaled(total, subCost, line.quantity))

\* getSupplyCostPerUnit(supply, suppliesById, visited): a number, null or a throw.
\* Each recursive call gets a copy of visited with supply.id added.
getSupplyCostPerUnit(supply, suppliesById, visited) ==
    IF supply.id \in visited THEN CycleDetected
    ELSE IF supply.type = "purchased" THEN PurchasedCost(supply)
    ELSE IF Len(supply.recipe) = 0 THEN Unknown
    ELSE IF supply.yield_amount = Null \/ supply.yield_amount[1] <= 0 THEN Unknown
    ELSE RecipeLoop(supply, suppliesById, visited \cup {supply.id}, 1, Zero)

\* A mutant of CaughtCost: a caught throw is reported as cost 0.
CaughtCostZero(supply, suppliesById) ==
    LET c == getSupplyCostPerUnit(supply, suppliesById, {})
    IN  IF c.k = "throw" THEN Zero ELSE c

\* The try/catch of the read endpoints: a throw leaves costPerUnit null.
CaughtCost(supply, suppliesById) ==
    LET c == getSupplyCostPerUnit(supply, suppliesById, {})
    IN  IF c.k = "throw" THEN Unknown ELSE c

\* A mutant of rowToSupply: if (costPerUnit) instead of the test for null.
rowToSupplyIfTruthy(id, costPerUnit) ==
    IF costPerUnit.k = "null" \/ costPerUnit = Zero
    THEN [id |-> id, hasCost |-> FALSE]
    ELSE [id |-> id, hasCost |-> TRUE, costPerUnit |-> costPerUnit]

\* rowToSupply(row, costPerUnit): the reported cost; the field is left out
\* (reported "none") when costPerUnit is null.
rowToSupply(id, costPerUnit) ==
    IF costPerUnit.k = "null"
    THEN [id |-> id, hasCost |-> FALSE]
    ELSE [id |-> id, hasCost |-> TRUE, costPerUnit |-> costPerUnit]

\* ------------------------------------------------------------------------
\* State
\* ------------------------------------------------------------------------

VARIABLES
    supplies,       \* the supplies table: supply id -> row, or NoRow
    last,           \* the last supplies request served and its response
    order_counter,  \* settings row 'order_counter': Null or Some(value)
    orders,         \* committed rows of the orders table
    order_items,    \* committed rows of the order_items table
    lock,           \* the transaction holding the counter row, or Null
    tx,             \* client -> its POST /orders handler and transaction
    committed,      \* the orders committed since the start, in commit order
    requests,       \* POST /orders requests received since the start
    startCounter,   \* the number the sequencer started from
    open_accounts,  \* committed rows of open_accounts: tab id -> row, NoRow
    close,          \* the handler of POST /open-accounts/:id/close
    create,         \* the handler of POST /orders with an openAccountId
    menu_items,     \* the menu_items table: menu item id -> recipe column
    writers,        \* client -> its POST /supplies or PUT /supplies/:id
    deleter,        \* the handler of DELETE /supplies/:id
    walk,           \* a call of getSupplyCostPerUnit, statement by statement
    cash_registers, \* the cash_registers table: register id -> row, NoRow
    cashiers        \* client -> its POST or PATCH on /cash-registers

vars == <<supplies, last, order_counter, orders, order_items, lock, tx,
          committed, requests, startCounter, open_accounts, close, create,
          menu_items, writers, deleter, walk, cash_registers, cashiers>>

\* The supply handlers that run statement by statement, the menu, and the
\* cash registers.
stepVars == <<menu_items, writers, deleter, walk, cash_registers, cashiers>>

\* No such handler is in use, the menu is empty, there is no register.
NoSteps ==
    /\ menu_items = <<>>
    /\ writers = <<>>
    /\ deleter = [pc |-> "idle"]
    /\ walk = [pc |-> "idle"]
    /\ cash_registers = <<>>
    /\ cashiers = <<>>

tabVars == <<open_accounts, close, create>>

\* No tab route is in use.
NoTabs ==
    /\ open_accounts = <<>>
    /\ close = [pc |-> "idle"]
    /\ create = [pc |-> "idle"]

orderVars == <<order_counter, orders, order_items, lock, tx, committed,
               requests, startCounter>>

\* No order route is in use: empty order tables, no handler running.
NoOrders ==
    /\ order_counter = Null
    /\ orders = {}
    /\ order_items = {}
    /\ lock = Null
    /\ tx = <<>>
    /\ committed = <<>>
    /\ requests = 0
    /\ startCounter = 0

NoRequest == [op |-> "none"]

\* ------------------------------------------------------------------------
\* Tables the resolver is applied to.  The columns allow values the write
\* routes never store (a purchased row without quantity, a composed row
\* without yield, a recipe that is no array), so the tables are drawn from
\* the rows the schema admits, in two families: one rich in numbers over a
\* tree, one rich in shapes (cycles, shared and repeated ingredients).
\* ------------------------------------------------------------------------

\* The longest recipe of a drawn row.
MaxLines == 2

Prices == {Null, Some(0), Some(5)}

Quantities == {Null, Some(0), Some(1), Some(2)}

Yields == {Null, Some(0), Some(10)}

Lines(ids, quantities) ==
    [supplyId : {Some(i) : i \in ids}, quantity : {Some(q) : q \in quantities}]

\* A line normalizeRecipeLine drops.
MalformedLine == [supplyId |-> Null, quantity |-> Some(1)]

SeqsFromTo(S, m, n) == UNION {[1..k -> S] : k \in m..n}

PurchasedRow(price, quantity) ==
    [name |-> "n", type |-> "purchased", unit |-> Some("g"), purchase_price |-> price,
     purchase_quantity |-> quantity, recipe |-> Null, yield_amount |-> Null,
     yield_unit |-> Null]

ComposedRow(recipeJson, yield) ==
    [name |-> "n", type |-> "composed", unit |-> Null, purchase_price |-> Null,
     purchase_quantity |-> Null, recipe |-> recipeJson, yield_amount |-> yield,
     yield_unit |-> Some("g")]

PurchasedRows == {PurchasedRow(p, q) : p \in Prices, q \in Quantities}

\* Family 1: A composed of B and C, which are purchased or absent.
PricedRoots ==
    {ComposedRow(JsonArray(r), y) :
        r \in SeqsFromTo(Lines({"B", "C"}, {1, 2}), 0, MaxLines), y \in Yields}

PricedTables ==
    {[id \in SupplyIds |-> IF id = "A" THEN a ELSE IF id = "B" THEN b ELSE c] :
        a \in PricedRoots,
        b \in {NoRow} \cup PurchasedRows,
        c \in {NoRow} \cup PurchasedRows}

\* Family 2: any supply may reference any supply.
ShapeRows(maxLen) ==
    {NoRow, PurchasedRow(Some(5), Some(1)), PurchasedRow(Null, Some(1))}
    \cup {ComposedRow(JsonArray(r), Some(10)) :
            r \in SeqsFromTo(Lines(SupplyIds, {1}), 1, maxLen)}
    \cup {ComposedRow(JsonArray(<<[supplyId |-> Some("A"), quantity |-> Some(1)]>>), Null),
          ComposedRow(Null, Some(10)),
          ComposedRow(NotAnArray, Some(10)),
          ComposedRow(JsonArray(<<MalformedLine,
                                  [supplyId |-> Some("B"), quantity |-> Some(1)]>>),
                      Some(10))}

ShapedTables ==
    {[id \in SupplyIds |-> IF id = "A" THEN a ELSE IF id = "B" THEN b ELSE c] :
        a \in ShapeRows(MaxLines), b \in ShapeRows(MaxLines), c \in ShapeRows(1)}

Tables == PricedTables \cup ShapedTables

\* ------------------------------------------------------------------------
\* Read endpoints and the resolver applied to a stored supply
\* ------------------------------------------------------------------------

\* getSupplyCostPerUnit(supply, suppliesById) on the current table.
ResolveCost(id) ==
    /\ last = NoRequest
    /\ supplies[id] # NoRow
    /\ LET byId == SuppliesById(supplies)
       IN  last' = [op |-> "resolve", id |-> id,
                    result |-> getSupplyCostPerUnit(byId[id], byId, {})]
    /\ UNCHANGED supplies

\* A mutant of GetSupplies: one try/catch around the whole listing.
GetSuppliesOneCatch ==
    /\ last = NoRequest
    /\ LET byId == SuppliesById(supplies)
       IN  IF \E id \in DOMAIN byId :
                 getSupplyCostPerUnit(byId[id], byId, {}).k = "throw"
           THEN last' = [op |-> "list", status |-> 500, items |-> <<>>]
           ELSE last' = [op |-> "list", status |-> 200,
                         items |-> [id \in DOMAIN byId |->
                                      rowToSupply(id, CaughtCost(byId[id], byId))]]
    /\ UNCHANGED supplies

\* GET /supplies
GetSupplies ==
    /\ last = NoRequest
    /\ LET byId == SuppliesById(supplies)
       IN  last' = [op |-> "list", status |-> 200,
                    items |-> [id \in DOMAIN byId |->
                                 rowToSupply(id, CaughtCost(byId[id], byId))]]
    /\ UNCHANGED supplies

\* GET /supplies/:id
GetSupplyById(id) ==
    /\ last = NoRequest
    /\ LET byId == SuppliesById(supplies)
       IN  IF id \notin DOMAIN byId
           THEN last' = [op |-> "get", id |-> id, status |-> 404]
           ELSE last' = [op |-> "get", id |-> id, status |-> 200,
                         item |-> rowToSupply(id, CaughtCost(byId[id], byId))]
    /\ UNCHANGED supplies

\* res.json(...): the response leaves; the routes keep nothing of a request.
TakeResponse ==
    /\ last # NoRequest
    /\ last' = NoRequest
    /\ UNCHANGED supplies

InitCost ==
    /\ supplies \in Tables
    /\ last = NoRequest
    /\ NoOrders
    /\ NoTabs
    /\ NoSteps

NextCost ==
    /\ \/ \E id \in SupplyIds : ResolveCost(id)
       \/ GetSupplies
       \/ \E id \in SupplyIds : GetSupplyById(id)
       \/ TakeResponse
    /\ UNCHANGED orderVars
    /\ UNCHANGED tabVars
    /\ UNCHANGED stepVars

SpecCost == InitCost /\ [][NextCost]_vars

\* ------------------------------------------------------------------------
\* Write routes: POST /supplies and PUT /supplies/:id
\* ------------------------------------------------------------------------

\* JSON.stringify of the normalized lines.
StringifyLines(recipe) ==
    JsonArray([k \in 1..Len(recipe) |->
                 [supplyId |-> Some(recipe[k].supplyId),
                  quantity |-> Some(recipe[k].quantity)]])

\* Array.isArray(recipe) ? recipe.map(normalizeRecipeLine).filter(Boolean) : []
RecipeArr(body) ==
    IF body.recipe = Null THEN <<>> ELSE NormalizeRecipe(body.recipe[1])

RulesErrorSelfBeforeYield(supplyId, body) ==
    IF body.name = Null \/ body.type = Null THEN "required"
    ELSE IF body.type[1] \notin {"purchased", "composed"} THEN "type"
    ELSE IF body.type[1] = "purchased"
         THEN IF body.unit = Null \/ body.unit[1] \notin VALID_UNITS THEN "unit"
              ELSE IF body.purchaseQuantity = Null \/ body.purchaseQuantity[1] <= 0
                   THEN "quantity"
              ELSE "none"
    ELSE IF Len(RecipeArr(body)) = 0 THEN "recipe"
    ELSE IF \E k \in 1..Len(RecipeArr(body)) : RecipeArr(body)[k].supplyId = supplyId
         THEN "self"
    ELSE IF \/ body.yieldAmount = Null
            \/ body.yieldAmount[1] <= 0
            \/ body.yieldUnit = Null
            \/ body.yieldUnit[1] \notin VALID_UNITS
         THEN "yield"
    ELSE "none"

\* The checks before the cycle check, in the order of the code; "none" when
\* the body passes them all.
RulesError(supplyId, body) ==
    IF body.name = Null \/ body.type = Null THEN "required"
    ELSE IF body.type[1] \notin {"purchased", "composed"} THEN "type"
    ELSE IF body.type[1] = "purchased"
         THEN IF body.unit = Null \/ body.unit[1] \notin VALID_UNITS THEN "unit"
              ELSE IF body.purchaseQuantity = Null \/ body.purchaseQuantity[1] <= 0
                   THEN "quantity"
              ELSE "none"
    ELSE IF Len(RecipeArr(body)) = 0 THEN "recipe"
    ELSE IF \/ body.yieldAmount = Null
            \/ body.yieldAmount[1] <= 0
            \/ body.yieldUnit = Null
            \/ body.yieldUnit[1] \notin VALID_UNITS
         THEN "yield"
    ELSE IF \E k \in 1..Len(RecipeArr(body)) : RecipeArr(body)[k].supplyId = supplyId
         THEN "self"
    ELSE "none"

\* The columns written: unitVal, purchasePriceVal, ..., recipeJson.
StoredRow(body) ==
    LET purchased == body.type[1] = "purchased"
        composed == body.type[1] = "composed"
    IN  [name |-> body.name[1],
         type |-> body.type[1],
         unit |-> IF purchased THEN body.unit ELSE Null,
         purchase_price |-> IF purchased THEN body.purchasePrice ELSE Null,
         purchase_quantity |-> IF purchased THEN body.purchaseQuantity ELSE Null,
         recipe |-> IF composed /\ body.recipe # Null
                    THEN StringifyLines(RecipeArr(body)) ELSE Null,
         yield_amount |-> IF composed THEN body.yieldAmount ELSE Null,
         yield_unit |-> IF composed THEN body.yieldUnit ELSE Null]

\* The candidate object of the cycle check.
Candidate(supplyId, body) ==
    LET row == StoredRow(body)
    IN  [id |-> supplyId,
         name |-> row.name,
         type |-> row.type,
         unit |-> row.unit,
         purchase_price |-> row.purchase_price,
         purchase_quantity |-> row.purchase_quantity,
         recipe |-> IF row.type = "composed" THEN RecipeArr(body) ELSE <<>>,
         yield_amount |-> row.yield_amount,
         yield_unit |-> row.yield_unit]

\* suppliesById[supplyId] = candidate
WithCandidate(byId, candidate) ==
    [i \in DOMAIN byId \cup {candidate.id} |->
        IF i = candidate.id THEN candidate ELSE byId[i]]

\* A mutant of CycleCheck: the walk runs on the stored rows, the candidate
\* not substituted for its id.
CycleCheckOnStoredRows(table, candidate) ==
    getSupplyCostPerUnit(candidate, SuppliesById(table), {}).k = "throw"

\* The cycle check: TRUE when getSupplyCostPerUnit(candidate, suppliesById)
\* throws the circular-reference error.
CycleCheck(table, candidate) ==
    getSupplyCostPerUnit(candidate, WithCandidate(SuppliesById(table), candidate), {}).k
        = "throw"

\* The cost of the response after the write.
WrittenCost(table, supplyId) ==
    LET byId == SuppliesById(table)
    IN  rowToSupply(supplyId, CaughtCost(byId[supplyId], byId))

Rejected(op, supplyId, body, error) ==
    [op |-> op, id |-> supplyId, body |-> body, before |-> supplies,
     status |-> 400, error |-> error]

\* randomUUID(): an id no row and no recipe line holds.
FreshId(supplyId, body) ==
    /\ supplies[supplyId] = NoRow
    /\ \A i \in DOMAIN SuppliesById(supplies) :
          \A k \in 1..Len(SuppliesById(supplies)[i].recipe) :
              SuppliesById(supplies)[i].recipe[k].supplyId # supplyId
    /\ \A k \in 1..Len(RecipeArr(body)) : RecipeArr(body)[k].supplyId # supplyId

\* A mutant of PostSupply: the INSERT replaces a row of the same id.
PostSupplyReplaces(supplyId, given, body) ==
    /\ last = NoRequest
    /\ given \/ FreshId(supplyId, body)
    /\ LET error == RulesError(supplyId, body)
       IN  IF error # "none"
           THEN /\ last' = Rejected("post", supplyId, body, error)
                /\ UNCHANGED supplies
           ELSE IF CycleCheck(supplies, Candidate(supplyId, body))
           THEN /\ last' = Rejected("post", supplyId, body, "circular")
                /\ UNCHANGED supplies
           ELSE /\ supplies' = [supplies EXCEPT ![supplyId] = StoredRow(body)]
                /\ last' = [op |-> "post", id |-> supplyId, body |-> body,
                            before |-> supplies, status |-> 201, error |-> "none",
                            item |-> WrittenCost(supplies', supplyId)]

\* POST /supplies.  given: the body carries the id; otherwise it is a fresh one.
PostSupply(supplyId, given, body) ==
    /\ last = NoRequest
    /\ given \/ FreshId(supplyId, body)
    /\ LET error == RulesError(supplyId, body)
       IN  IF error # "none"
           THEN /\ last' = Rejected("post", supplyId, body, error)
                /\ UNCHANGED supplies
           ELSE IF CycleCheck(supplies, Candidate(supplyId, body))
           THEN /\ last' = Rejected("post", supplyId, body, "circular")
                /\ UNCHANGED supplies
           ELSE IF supplies[supplyId] # NoRow
           THEN /\ last' = [op |-> "post", id |-> supplyId, body |-> body,
                            before |-> supplies, status |-> 409, error |-> "exists"]
                /\ UNCHANGED supplies
           ELSE /\ supplies' = [supplies EXCEPT ![supplyId] = StoredRow(body)]
                /\ last' = [op |-> "post", id |-> supplyId, body |-> body,
                            before |-> supplies, status |-> 201, error |-> "none",
                            item |-> WrittenCost(supplies', supplyId)]

\* A mutant of PutSupply: the UPDATE runs before the checks.
PutSupplyWritesFirst(id, body) ==
    /\ last = NoRequest
    /\ body.name # Null /\ body.type # Null
    /\ body.type[1] \in {"purchased", "composed"}
    /\ supplies' = IF supplies[id] = NoRow THEN supplies
                   ELSE [supplies EXCEPT ![id] = StoredRow(body)]
    /\ LET error == RulesError(id, body)
       IN  last' = IF error # "none" THEN Rejected("put", id, body, error)
                   ELSE IF CycleCheck(supplies, Candidate(id, body))
                   THEN Rejected("put", id, body, "circular")
                   ELSE [op |-> "put", id |-> id, body |-> body,
                         before |-> supplies,
                         status |-> IF supplies[id] = NoRow THEN 404 ELSE 200,
                         error |-> "none"]

\* PUT /supplies/:id
PutSupply(id, body) ==
    /\ last = NoRequest
    /\ LET error == RulesError(id, body)
       IN  IF error # "none"
           THEN /\ last' = Rejected("put", id, body, error)
                /\ UNCHANGED supplies
           ELSE IF CycleCheck(supplies, Candidate(id, body))
           THEN /\ last' = Rejected("put", id, body, "circular")
                /\ UNCHANGED supplies
           ELSE IF supplies[id] = NoRow
           THEN /\ last' = [op |-> "put", id |-> id, body |-> body,
                            before |-> supplies, status |-> 404, error |-> "missing"]
                /\ UNCHANGED supplies
           ELSE /\ supplies' = [supplies EXCEPT ![id] = StoredRow(body)]
                /\ last' = [op |-> "put", id |-> id, body |-> body,
                            before |-> supplies, status |-> 200, error |-> "none",
                            item |-> WrittenCost(supplies', id)]

\* Request bodies.  A recipe sent for supply A has up to MaxLines lines, one
\* sent for B or C at most one.
ValidPurchased ==
    [name |-> Some("n"), type |-> Some("purchased"), unit |-> Some("g"),
     purchasePrice |-> Some(5), purchaseQuantity |-> Some(1), recipe |-> Null,
     yieldAmount |-> Null, yieldUnit |-> Null]

PurchasedBodies ==
    {[ValidPurchased EXCEPT !.unit = u, !.purchasePrice = p, !.purchaseQuantity = q] :
        u \in {Some("g"), Some("kg")},
        p \in {Null, Some(5)},
        q \in {Null, Some(0), Some(1)}}

ComposedBodies(maxLen) ==
    {[name |-> Some("n"), type |-> Some("composed"), unit |-> Null,
      purchasePrice |-> Null, purchaseQuantity |-> Null, recipe |-> r,
      yieldAmount |-> y, yieldUnit |-> Some("g")] :
        r \in {Null, Some(<<MalformedLine>>)}
              \cup {Some(x) : x \in SeqsFromTo(Lines(SupplyIds, {1}), 0, maxLen)},
        y \in {Null, Some(10)}}

\* Bodies that break several rules at once.
SeveralErrors(id) ==
    {[ValidPurchased EXCEPT !.name = Null, !.unit = Some("kg")],
     [ValidPurchased EXCEPT !.type = Some("other"), !.unit = Some("kg"),
                            !.purchaseQuantity = Null]}
    \cup {[name |-> Some("n"), type |-> Some("composed"), unit |-> Null,
           purchasePrice |-> Null, purchaseQuantity |-> Null,
           recipe |-> Some(<<[supplyId |-> Some(id), quantity |-> Some(1)]>>),
           yieldAmount |-> Some(10), yieldUnit |-> u] :
              u \in {Null, Some("kg")}}

\* A composed body with a line of quantity 0.
ZeroQuantityBody ==
    [name |-> Some("n"), type |-> Some("composed"), unit |-> Null,
     purchasePrice |-> Null, purchaseQuantity |-> Null,
     recipe |-> Some(<<[supplyId |-> Some("C"), quantity |-> Some(0)]>>),
     yieldAmount |-> Some(10), yieldUnit |-> Some("g")]

Bodies(id) ==
    {[ValidPurchased EXCEPT !.name = Null], [ValidPurchased EXCEPT !.type = Some("other")]}
    \cup SeveralErrors(id)
    \cup (IF id = "A" THEN {ZeroQuantityBody} ELSE {})
    \cup PurchasedBodies
    \cup ComposedBodies(IF id = "A" THEN MaxLines ELSE 1)

EmptyTable == [id \in SupplyIds |-> NoRow]

InitSupply ==
    /\ supplies = EmptyTable
    /\ last = NoRequest
    /\ NoOrders
    /\ NoTabs
    /\ NoSteps

NextSupply ==
    /\ \/ \E id \in SupplyIds, given \in BOOLEAN : \E body \in Bodies(id) :
             PostSupply(id, given, body)
       \/ \E id \in SupplyIds : \E body \in Bodies(id) : PutSupply(id, body)
       \/ TakeResponse
    /\ UNCHANGED orderVars
    /\ UNCHANGED tabVars
    /\ UNCHANGED stepVars

SpecSupply == InitSupply /\ [][NextSupply]_vars

\* ------------------------------------------------------------------------
\* Orders: the order sequencer of POST /orders (PostgreSQL, READ COMMITTED)
\* ------------------------------------------------------------------------
\* Strings of the sequencer are sequences of one-character strings, so that
\* String(n), parseInt(s, 10), `#${n}` and REPLACE(id, '#', '') are
\* computed, not assumed.

DigitChars == <<"0", "1", "2", "3", "4", "5", "6", "7", "8", "9">>

RECURSIVE String(_)
\* String(nextNum): the decimal digits of a non-negative integer.
String(n) ==
    IF n < 10 THEN <<DigitChars[n + 1]>>
    ELSE String(n \div 10) \o <<DigitChars[(n % 10) + 1]>>

DigitValue(ch) == (CHOOSE i \in 1..10 : DigitChars[i] = ch) - 1

RECURSIVE parseInt(_)
\* parseInt(row.value, 10) of a string of decimal digits.
parseInt(s) ==
    IF Len(s) = 0 THEN 0
    ELSE 10 * parseInt(SubSeq(s, 1, Len(s) - 1)) + DigitValue(s[Len(s)])

\* orderId = `#${nextNum}`
OrderId(nextNum) == <<"#">> \o String(nextNum)

\* CAST(REPLACE(id, '#', '') AS INTEGER)
IdNumber(id) == parseInt(SelectSeq(id, LAMBDA ch : ch # "#"))

\* SELECT MAX(CAST(REPLACE(id, '#', '') AS INTEGER)) AS max_id FROM orders
MaxId(rows) ==
    IF rows = {} THEN Null
    ELSE Some(CHOOSE n \in {IdNumber(r.id) : r \in rows} :
                  \A r \in rows : IdNumber(r.id) <= n)

\* The clients whose requests the server handles at the same time; each
\* handler holds its own pool connection.
NumClients == 2

Clients == 1..NumClients

\* Requests the server receives in one run.
MaxRequests == 2

\* Largest items array of a request body.
MaxItems == 1

\* Counter values a database may hold when the server starts.
SeedCounters == {0, 9}

Idle == [pc |-> "idle"]

\* The states of a handler between BEGIN and COMMIT / ROLLBACK.
InTransaction == {"select_counter", "select_max", "upsert_counter",
                  "insert_order", "insert_item", "commit"}

\* ... and those after its read of the counter.
AfterCounterRead == InTransaction \ {"select_counter"}

\* router.post('/'): validation, then pool.connect() and BEGIN.
PostOrder(p, nItems) ==
    /\ tx[p] = Idle
    /\ requests < MaxRequests
    /\ requests' = requests + 1
    /\ tx' = [tx EXCEPT ![p] =
                 IF nItems = 0
                 THEN [pc |-> "400", request |-> requests + 1]
                 ELSE [pc |-> "select_counter", request |-> requests + 1,
                       items |-> nItems, seen |-> Null, nextNum |-> 0,
                       counterWrite |-> Null, orderRows |-> {},
                       itemRows |-> {}]]
    /\ UNCHANGED <<order_counter, orders, order_items, lock, committed,
                   startCounter>>

\* SELECT value FROM settings WHERE key = 'order_counter': a plain read
\* of the committed row; it takes no lock and waits for none.
SelectCounterNoIncrement(p) ==
    /\ tx[p].pc = "select_counter"
    /\ tx' = [tx EXCEPT ![p] =
                 IF order_counter # Null
                 THEN [@ EXCEPT !.pc = "upsert_counter",
                                !.seen = order_counter,
                                !.nextNum = parseInt(order_counter[1])]
                 ELSE [@ EXCEPT !.pc = "select_max"]]
    /\ UNCHANGED <<order_counter, orders, order_items, lock, committed,
                   requests, startCounter>>

SelectCounter(p) ==
    /\ tx[p].pc = "select_counter"
    /\ tx' = [tx EXCEPT ![p] =
                 IF order_counter # Null
                 THEN [@ EXCEPT !.pc = "upsert_counter",
                                !.seen = order_counter,
                                !.nextNum = parseInt(order_counter[1]) + 1]
                 ELSE [@ EXCEPT !.pc = "select_max"]]
    /\ UNCHANGED <<order_counter, orders, order_items, lock, committed,
                   requests, startCounter>>

SelectMaxFromOne(p) ==
    /\ tx[p].pc = "select_max"
    /\ tx' = [tx EXCEPT ![p] = [@ EXCEPT !.pc = "upsert_counter",
                                         !.nextNum = 1]]
    /\ UNCHANGED <<order_counter, orders, order_items, lock, committed,
                   requests, startCounter>>

\* No counter row: the next number comes from the largest order id.
SelectMax(p) ==
    /\ tx[p].pc = "select_max"
    /\ LET max_id == MaxId(orders)
       IN  tx' = [tx EXCEPT ![p] =
                     [@ EXCEPT !.pc = "upsert_counter",
                               !.nextNum = (IF max_id # Null THEN max_id[1]
                                            ELSE 0) + 1]]
    /\ UNCHANGED <<order_counter, orders, order_items, lock, committed,
                   requests, startCounter>>

\* INSERT INTO settings ... ON CONFLICT (key) DO UPDATE: the statement
\* waits while another transaction holds the row, then holds it until this
\* transaction ends.
UpsertCounter(p) ==
    /\ tx[p].pc = "upsert_counter"
    /\ lock = Null
    /\ lock' = Some(p)
    /\ tx' = [tx EXCEPT ![p] =
                 [@ EXCEPT !.pc = "insert_order",
                           !.counterWrite = Some(String(tx[p].nextNum))]]
    /\ UNCHANGED <<order_counter, orders, order_items, committed,
                   requests, startCounter>>

\* catch (e) { ROLLBACK; throw e } and the outer catch: the writes of the
\* transaction are dropped, its lock released, the answer is 500.
RollbackKeepsCounter(p, at) ==
    /\ tx' = [tx EXCEPT ![p] = [pc |-> "500", request |-> @.request,
                                failedAt |-> at,
                                lines |-> Cardinality(@.itemRows)]]
    /\ lock' = IF lock = Some(p) THEN Null ELSE lock
    /\ order_counter' = IF tx[p].counterWrite # Null
                        THEN tx[p].counterWrite ELSE order_counter
    /\ UNCHANGED <<orders, order_items, committed, requests, startCounter>>

Rollback(p, at) ==
    /\ tx' = [tx EXCEPT ![p] = [pc |-> "500", request |-> @.request,
                                failedAt |-> at,
                                lines |-> Cardinality(@.itemRows)]]
    /\ lock' = IF lock = Some(p) THEN Null ELSE lock
    /\ UNCHANGED <<order_counter, orders, order_items, committed, requests,
                   startCounter>>

\* INSERT INTO orders (id, ...): id is the primary key; a committed row
\* with the same id makes the statement fail (unique violation).
InsertOrderUnchecked(p) ==
    /\ tx[p].pc = "insert_order"
    /\ tx' = [tx EXCEPT ![p] =
                 [@ EXCEPT !.pc = "insert_item",
                           !.orderRows = {[id |-> OrderId(tx[p].nextNum),
                                           request |-> tx[p].request]}]]
    /\ UNCHANGED <<order_counter, orders, order_items, lock, committed,
                   requests, startCounter>>

InsertOrder(p) ==
    /\ tx[p].pc = "insert_order"
    /\ LET orderId == OrderId(tx[p].nextNum)
       IN  \* a row of that id written by a transaction still open makes
           \* the statement wait for that transaction to end
           /\ \A q \in Clients \ {p} :
                  tx[q].pc \in InTransaction
                      => \A r \in tx[q].orderRows : r.id # orderId
           /\ IF \E r \in orders : r.id = orderId
              THEN Rollback(p, "insert_order")
              ELSE /\ tx' = [tx EXCEPT ![p] =
                                [@ EXCEPT !.pc = "insert_item",
                                          !.orderRows =
                                              {[id |-> orderId,
                                                request |-> tx[p].request]}]]
                   /\ UNCHANGED <<order_counter, orders, order_items, lock,
                                  committed, requests, startCounter>>

\* for (const item of items) INSERT INTO order_items ...
InsertItem(p) ==
    /\ tx[p].pc = "insert_item"
    /\ LET line == Cardinality(tx[p].itemRows) + 1
       IN  tx' = [tx EXCEPT ![p] =
                     [@ EXCEPT !.pc = IF line = tx[p].items THEN "commit"
                                      ELSE "insert_item",
                               !.itemRows =
                                   @ \cup {[order_id |-> OrderId(tx[p].nextNum),
                                            request |-> tx[p].request,
                                            line |-> line]}]]
    /\ UNCHANGED <<order_counter, orders, order_items, lock, committed,
                   requests, startCounter>>

\* COMMIT: the writes of the transaction become the committed rows and its
\* lock is released; the answer is 201.
Commit(p) ==
    /\ tx[p].pc = "commit"
    /\ order_counter' = tx[p].counterWrite
    /\ orders' = orders \cup tx[p].orderRows
    /\ order_items' = order_items \cup tx[p].itemRows
    /\ lock' = IF lock = Some(p) THEN Null ELSE lock
    /\ committed' = committed \o
           <<[id |-> OrderId(tx[p].nextNum), request |-> tx[p].request]>>
    /\ tx' = [tx EXCEPT ![p] = [pc |-> "201", request |-> @.request]]
    /\ UNCHANGED <<requests, startCounter>>

\* A statement of the transaction throws for a reason of its own (a
\* constraint of the row, the connection): the catch block runs.
StatementFails(p) ==
    /\ tx[p].pc \in InTransaction
    /\ Rollback(p, tx[p].pc)

\* res.status(...).json(...): the handler ends.
OrderResponse(p) ==
    /\ tx[p].pc \in {"201", "400", "500"}
    /\ tx' = [tx EXCEPT ![p] = Idle]
    /\ UNCHANGED <<order_counter, orders, order_items, lock, committed,
                   requests, startCounter>>

\* An order committed before the server started, with one item.
SeedOrder(n) == [id |-> OrderId(n), request |-> 0]

SeedItem(n) == [order_id |-> OrderId(n), request |-> 0, line |-> 1]

\* The databases the server may start on: a counter row holding c next to
\* orders numbered at most c, or no counter row next to any orders.
InitOrders ==
    /\ \E c \in SeedCounters, row \in BOOLEAN :
       \E nums \in SUBSET ({c - 1, c} \cap (1..c)) :
          /\ row => c >= 1
          /\ order_counter = IF row THEN Some(String(c)) ELSE Null
          /\ orders = {SeedOrder(n) : n \in nums}
          /\ order_items = {SeedItem(n) : n \in nums}
          /\ startCounter =
                 IF row THEN c
                 ELSE IF nums = {} THEN 0
                 ELSE CHOOSE n \in nums : \A m \in nums : m <= n
    /\ lock = Null
    /\ tx = [p \in Clients |-> Idle]
    /\ committed = <<>>
    /\ requests = 0
    /\ supplies = EmptyTable
    /\ last = NoRequest
    /\ NoTabs
    /\ NoSteps

NextOrders ==
    /\ \/ \E p \in Clients, nItems \in 0..MaxItems : PostOrder(p, nItems)
       \/ \E p \in Clients : SelectCounter(p)
       \/ \E p \in Clients : SelectMax(p)
       \/ \E p \in Clients : UpsertCounter(p)
       \/ \E p \in Clients : InsertOrder(p)
       \/ \E p \in Clients : InsertItem(p)
       \/ \E p \in Clients : Commit(p)
       \/ \E p \in Clients : StatementFails(p)
       \/ \E p \in Clients : OrderResponse(p)
    /\ UNCHANGED <<supplies, last>>
    /\ UNCHANGED tabVars
    /\ UNCHANGED stepVars

SpecOrders == InitOrders /\ [][NextOrders]_vars

\* ------------------------------------------------------------------------
\* Tabs (open accounts): POST /open-accounts/:id/close and the creation of
\* orders on a tab
\* ------------------------------------------------------------------------
\* The repository holds two builds of the close route: one walks the tab's
\* orders from the newest to the oldest (part_003, lines 98-220), the other
\* discounts the newest order only (routes/openAccounts.js, lines 98-210).
\* Text values are sequences of tokens; the token " " is white space.

Builds == {"walk", "last_order"}

RECURSIVE TrimStart(_)
TrimStart(s) ==
    IF Len(s) > 0 /\ Head(s) = " " THEN TrimStart(Tail(s)) ELSE s

RECURSIVE TrimEnd(_)
TrimEnd(s) ==
    IF Len(s) > 0 /\ s[Len(s)] = " "
    THEN TrimEnd(SubSeq(s, 1, Len(s) - 1)) ELSE s

\* String(x).trim()
Trim(s) == TrimEnd(TrimStart(s))

\* discountReason && String(discountReason).trim(): a reason with text.
HasText(field) == field # Null /\ Trim(field[1]) # <<>>

\* hasDiscount = discount != null && Number(discount) > 0
HasDiscount(body) == body.discount # Null /\ body.discount[1] > 0

Min(a, b) == IF a <= b THEN a ELSE b

Max(a, b) == IF a >= b THEN a ELSE b

\* 'Descuento de la cuenta: ' + String(discountReason).trim()
AccountReasonPart(body) ==
    <<"Descuento de la cuenta: ">> \o Trim(body.discountReason[1])

\* (order.discount_reason && String(order.discount_reason).trim()) || ''
ExistingReason(order) ==
    IF HasText(order.discount_reason) THEN Trim(order.discount_reason[1])
    ELSE <<>>

\* A mutant of NewReason: the note replaces the stored reason.
NewReasonReplaces(order, body) == AccountReasonPart(body)

\* existingReason ? existingReason + ' ' + accountReasonPart
\*                : accountReasonPart
NewReason(order, body) ==
    IF ExistingReason(order) # <<>>
    THEN ExistingReason(order) \o <<" ">> \o AccountReasonPart(body)
    ELSE AccountReasonPart(body)

\* order.discount != null ? Number(order.discount) : 0
ExistingDiscount(order) ==
    IF order.discount # Null THEN order.discount[1] ELSE 0

RECURSIVE OldestFirst(_)
OldestFirst(rows) ==
    IF rows = {} THEN <<>>
    ELSE LET oldest == CHOOSE r \in rows :
                           \A s \in rows : r.created_at <= s.created_at
         IN  <<oldest>> \o OldestFirst(rows \ {oldest})

\* The rows of a tab, ORDER BY created_at DESC, as a sequence.
RECURSIVE NewestFirst(_)
NewestFirst(rows) ==
    IF rows = {} THEN <<>>
    ELSE LET newest == CHOOSE r \in rows :
                           \A s \in rows : s.created_at <= r.created_at
         IN  <<newest>> \o NewestFirst(rows \ {newest})

\* WHERE open_account_id = $1
OrdersOfTab(rows, id) == {r \in rows : r.open_account_id = Some(id)}

\* The row a statement of the transaction finds under an order id: the
\* one the transaction wrote, else the committed one.
RowNow(id) ==
    IF id \in DOMAIN close.writes THEN close.writes[id]
    ELSE CHOOSE r \in orders : r.id = id

\* router.post('/:id/close') up to BEGIN: body validation, the read of the
\* tab (outside the transaction), pool.connect() and BEGIN.
CloseRequest(build, id, body) ==
    /\ close.pc = "idle"
    /\ LET answer(status, error) ==
               [pc |-> "done", status |-> status, error |-> error,
                build |-> build, id |-> id, body |-> body,
                before |-> [orders |-> orders,
                            open_accounts |-> open_accounts]]
       IN  close' =
               IF body.paymentMethod \notin {Some("efectivo"),
                                             Some("mercadopago")}
               THEN answer(400, "paymentMethod")
               ELSE IF body.paymentMethod = Some("mercadopago")
                       /\ body.mercadoPagoAccountId = Null
               THEN answer(400, "mercadoPagoAccountId")
               ELSE IF open_accounts[id] = NoRow
               THEN answer(404, "not found")
               ELSE IF open_accounts[id].status # "open"
               THEN answer(400, "closed")
               ELSE [pc |-> "select_orders", build |-> build, id |-> id,
                     body |-> body, name |-> open_accounts[id].name,
                     toDiscount |-> <<>>, remaining |-> 0,
                     writes |-> <<>>, accountWrite |-> Null,
                     before |-> [orders |-> orders,
                                 open_accounts |-> open_accounts]]
    /\ UNCHANGED <<orders, open_accounts, create, order_counter>>

\* The SELECT of the orders to discount, inside the transaction: every
\* order of the tab, newest first (part_003, 127-137), or the newest one
\* only, LIMIT 1 (openAccounts.js, 127-138).
SelectOrdersToDiscount ==
    /\ close.pc = "select_orders"
    /\ LET rows == NewestFirst(OrdersOfTab(orders, close.id))
           wanted == HasDiscount(close.body)
                         /\ HasText(close.body.discountReason)
       IN  close' = [close EXCEPT
               !.pc = "update_payment",
               !.toDiscount =
                   IF ~wanted THEN <<>>
                   ELSE IF close.build = "walk" THEN rows
                   ELSE SubSeq(rows, 1, Min(1, Len(rows))),
               !.remaining = IF wanted THEN close.body.discount[1] ELSE 0]
    /\ UNCHANGED <<orders, open_accounts, create, order_counter>>

\* UPDATE orders SET payment_method, ..., open_account_id = NULL
\* WHERE open_account_id = $3
UpdatePayment ==
    /\ close.pc = "update_payment"
    /\ LET rows == OrdersOfTab(orders, close.id)
       IN  close' = [close EXCEPT
               !.pc = IF close.toDiscount # <<>> THEN "discount"
                      ELSE "update_account",
               !.writes =
                   [rid \in {r.id : r \in rows} |->
                       LET r == CHOOSE r \in rows : r.id = rid
                       IN  [r EXCEPT
                               !.payment_method = close.body.paymentMethod[1],
                               !.mercado_pago_account_id =
                                   IF close.body.paymentMethod
                                          = Some("mercadopago")
                                   THEN close.body.mercadoPagoAccountId
                                   ELSE Null,
                               !.closed_open_account_id = Some(close.id),
                               !.closed_open_account_name = Some(close.name),
                               !.open_account_id = Null]]]
    /\ UNCHANGED <<orders, open_accounts, create, order_counter>>

\* UPDATE orders SET total, discount, discount_reason WHERE id = $4; it
\* matches no row when the order was deleted since the SELECT.
WriteDiscount(order, newTotal, newDiscount) ==
    IF order.id \notin DOMAIN close.writes
           /\ \A r \in orders : r.id # order.id
    THEN close.writes
    ELSE (order.id :> [RowNow(order.id) EXCEPT
                         !.total = newTotal,
                         !.discount = Some(newDiscount),
                         !.discount_reason =
                             Some(NewReason(order, close.body))])
             @@ close.writes

\* One pass of the loop of part_003 (161-182) over the first order still
\* to visit: break, continue, or the UPDATE of that order.
WalkStep ==
    /\ close.pc = "discount"
    /\ close.build = "walk"
    /\ LET order == Head(close.toDiscount)
           currentTotal == order.total
           applyHere == Min(close.remaining, Max(0, currentTotal))
       IN  close' =
               IF close.remaining <= 0
               THEN [close EXCEPT !.pc = "update_account",
                                  !.toDiscount = <<>>]
               ELSE IF applyHere <= 0
               THEN [close EXCEPT
                        !.pc = IF Len(close.toDiscount) = 1
                               THEN "update_account" ELSE "discount",
                        !.toDiscount = Tail(close.toDiscount)]
               ELSE [close EXCEPT
                        !.pc = IF Len(close.toDiscount) = 1
                               THEN "update_account" ELSE "discount",
                        !.toDiscount = Tail(close.toDiscount),
                        !.remaining = close.remaining - applyHere,
                        !.writes = WriteDiscount(order,
                                       currentTotal - applyHere,
                                       ExistingDiscount(order) + applyHere)]
    /\ UNCHANGED <<orders, open_accounts, create, order_counter>>

\* if (lastOrder) { ... } of openAccounts.js (157-173): the whole discount
\* goes to the newest order, its total clipped at 0.
LastOrderDiscount ==
    /\ close.pc = "discount"
    /\ close.build = "last_order"
    /\ LET lastOrder == Head(close.toDiscount)
           discountAmount == close.body.discount[1]
       IN  close' = [close EXCEPT
               !.pc = "update_account",
               !.toDiscount = <<>>,
               !.writes = WriteDiscount(lastOrder,
                              Max(0, lastOrder.total - discountAmount),
                              ExistingDiscount(lastOrder) + discountAmount)]
    /\ UNCHANGED <<orders, open_accounts, create, order_counter>>

\* UPDATE open_accounts SET status = 'closed', ... WHERE id = $5
UpdateAccount ==
    /\ close.pc = "update_account"
    /\ close' = [close EXCEPT
           !.pc = "commit",
           !.accountWrite =
               Some([open_accounts[close.id] EXCEPT
                        !.status = "closed",
                        !.payment_method_used = close.body.paymentMethod,
                        !.closed_discount = close.body.discount,
                        !.closed_discount_reason =
                            IF HasText(close.body.discountReason)
                            THEN Some(Trim(close.body.discountReason[1]))
                            ELSE Null])]
    /\ UNCHANGED <<orders, open_accounts, create, order_counter>>

\* COMMIT, then res.json({ ok: true, ... }): the writes of the transaction
\* replace the committed rows all at once.
CloseCommitPaymentOnly ==
    /\ close.pc = "commit"
    /\ orders' = {IF r.id \in DOMAIN close.writes THEN close.writes[r.id]
                  ELSE r : r \in orders}
    /\ close' = [pc |-> "done", status |-> 200, error |-> "",
                 build |-> close.build, id |-> close.id,
                 body |-> close.body, before |-> close.before,
                 writes |-> close.writes]
    /\ UNCHANGED <<open_accounts, create, order_counter>>

CloseCommit ==
    /\ close.pc = "commit"
    /\ orders' = {IF r.id \in DOMAIN close.writes THEN close.writes[r.id]
                  ELSE r : r \in orders}
    /\ open_accounts' =
           [open_accounts EXCEPT ![close.id] = close.accountWrite[1]]
    /\ close' = [pc |-> "done", status |-> 200, error |-> "",
                 build |-> close.build, id |-> close.id,
                 body |-> close.body, before |-> close.before,
                 writes |-> close.writes]
    /\ UNCHANGED <<create, order_counter>>

\* A statement of the transaction throws: catch (e) { ROLLBACK; throw e },
\* then the outer catch answers 500.
CloseFails ==
    /\ close.pc \in {"select_orders", "update_payment", "discount",
                     "update_account", "commit"}
    /\ close' = [pc |-> "done", status |-> 500, error |-> close.pc,
                 build |-> close.build, id |-> close.id,
                 body |-> close.body, before |-> close.before]
    /\ UNCHANGED <<orders, open_accounts, create, order_counter>>

\* POST /orders with openAccountId: the check that the tab is open, made
\* before the transaction (orders.js, 158-166).
CheckAccount(id, total) ==
    /\ create.pc = "idle"
    /\ create' =
           IF open_accounts[id] # NoRow /\ open_accounts[id].status = "open"
           THEN [pc |-> "transaction", openAccountId |-> id, total |-> total,
                 nextNum |-> 0]
           ELSE [pc |-> "done", status |-> 400]
    /\ UNCHANGED <<orders, open_accounts, close, order_counter>>

\* The transaction of POST /orders (orders.js, 168-227), in two steps: the
\* read of the counter row (173-176), which takes no lock; then the write
\* of the counter, the INSERT of the order under `#${nextNum}` and the
\* COMMIT, or ROLLBACK and 500 when a stored order holds that id.
CreateOnTab ==
    \/ /\ create.pc = "transaction"
       /\ create' = [create EXCEPT
              !.pc = "insert",
              !.nextNum = parseInt(order_counter[1]) + 1]
       /\ UNCHANGED <<orders, order_counter, open_accounts, close>>
    \/ /\ create.pc = "insert"
       /\ IF \E r \in orders : r.id = OrderId(create.nextNum)
          THEN /\ create' = [pc |-> "done", status |-> 500]
               /\ UNCHANGED <<orders, order_counter>>
          ELSE /\ order_counter' = Some(String(create.nextNum))
               /\ orders' = orders \cup
                      {[id |-> OrderId(create.nextNum),
                        total |-> create.total,
                        status |-> "pending",
                        discount |-> Null,
                        discount_reason |-> Null,
                        payment_method |-> "cuenta_abierta",
                        mercado_pago_account_id |-> Null,
                        open_account_id |-> Some(create.openAccountId),
                        closed_open_account_id |-> Null,
                        closed_open_account_name |-> Null,
                        \* CURRENT_TIMESTAMP: later than every stored row
                        created_at |->
                            IF orders = {} THEN 1
                            ELSE 1 + (CHOOSE n \in {r.created_at : r \in orders} :
                                        \A r \in orders : r.created_at <= n)]}
               /\ create' = [pc |-> "done", status |-> 201]
       /\ UNCHANGED <<open_accounts, close>>

\* ---- the databases and requests explored ----

TabIds == {"t1", "t2", "t3"}

\* Largest number of orders on the tab at start.
MaxTabOrders == 3

Totals == {-5, 0, 10, 20, 30}

Discounts == {Null, Some(0), Some(45), Some(100)}

Reasons == {Null, Some(<<" ", " ">>), Some(<<" ", "promo">>)}

TabRow(status) ==
    [status |-> status, name |-> "Mesa", payment_method_used |-> Null,
     closed_discount |-> Null, closed_discount_reason |-> Null]

\* An order created on tab t1; prior is whether it already carries a
\* discount of its own, with the reason as the request gave it
\* (discountReason ?? null, orders.js 204).
TabOrder(n, total, prior) ==
    [id |-> OrderId(n),
     total |-> total,
     status |-> "pending",
     discount |-> IF prior THEN Some(5) ELSE Null,
     discount_reason |-> IF prior THEN Some(<<" ", "previo">>) ELSE Null,
     payment_method |-> "cuenta_abierta",
     mercado_pago_account_id |-> Null,
     open_account_id |-> Some("t1"),
     closed_open_account_id |-> Null,
     closed_open_account_name |-> Null,
     created_at |-> n]

\* An order paid in cash, on no tab.
CashOrder(n) ==
    [TabOrder(n, 7, FALSE) EXCEPT !.payment_method = "efectivo",
                                  !.open_account_id = Null]

\* The tables with k orders on tab t1, oldest first in totals.
TabTables(k) ==
    {{CashOrder(k + 1)}
        \cup {TabOrder(n, totals[n], prior) : n \in 1..k} :
            totals \in [1..k -> Totals], prior \in BOOLEAN}

CloseBodies ==
    {[paymentMethod |-> Some("efectivo"), mercadoPagoAccountId |-> Null,
      discount |-> d, discountReason |-> reason] :
          d \in Discounts, reason \in Reasons}
    \cup {[paymentMethod |-> pm, mercadoPagoAccountId |-> acc,
           discount |-> Null, discountReason |-> Null] :
              pm \in {Null, Some("mercadopago"), Some("tarjeta")},
              acc \in {Null, Some("mp1")}}

\* No POST /orders transaction of the sequencer is running and the supply
\* routes are not in use; the counter row holds the last number issued.
NoSequencer ==
    /\ order_items = {}
    /\ lock = Null
    /\ tx = <<>>
    /\ committed = <<>>
    /\ requests = 0
    /\ startCounter = 0
    /\ supplies = EmptyTable
    /\ last = NoRequest

\* t1 is open, t2 is closed, t3 does not exist.
InitAccounts ==
    open_accounts = [id \in TabIds |->
                        IF id = "t1" THEN TabRow("open")
                        ELSE IF id = "t2" THEN TabRow("closed")
                        ELSE NoRow]

InitClose ==
    /\ \E k \in 0..MaxTabOrders :
          /\ orders \in TabTables(k)
          /\ order_counter = Some(String(k + 1))
    /\ InitAccounts
    /\ close = [pc |-> "idle"]
    /\ create = [pc |-> "idle"]
    /\ NoSequencer
    /\ NoSteps

NextClose ==
    /\ \/ \E build \in Builds, id \in TabIds, body \in CloseBodies :
             CloseRequest(build, id, body)
       \/ SelectOrdersToDiscount
       \/ UpdatePayment
       \/ WalkStep
       \/ LastOrderDiscount
       \/ UpdateAccount
       \/ CloseCommit
       \/ CloseFails
    /\ UNCHANGED <<supplies, last, order_items, lock, tx, committed,
                   requests, startCounter>>
    /\ UNCHANGED stepVars

SpecClose == InitClose /\ [][NextClose]_vars

\* A close of t1 and a creation of an order on a tab, each at its own pace.
InitRace ==
    /\ orders \in TabTables(1)
    /\ order_counter = Some(String(2))
    /\ InitAccounts
    /\ close = [pc |-> "idle"]
    /\ create = [pc |-> "idle"]
    /\ NoSequencer
    /\ NoSteps

NextRace ==
    /\ \/ \E build \in Builds, body \in CloseBodies :
             CloseRequest(build, "t1", body)
       \/ SelectOrdersToDiscount
       \/ UpdatePayment
       \/ WalkStep
       \/ LastOrderDiscount
       \/ UpdateAccount
       \/ CloseCommit
       \/ CloseFails
       \/ \E id \in TabIds, total \in {10, 30} : CheckAccount(id, total)
       \/ CreateOnTab
    /\ UNCHANGED <<supplies, last, order_items, lock, tx, committed,
                   requests, startCounter>>
    /\ UNCHANGED stepVars

SpecRace == InitRace /\ [][NextRace]_vars

\* A second POST /open-accounts/:id/close, without discount, served from
\* its read of the tab to its COMMIT between two statements of the first
\* handler: it finds the tab open and waits for no row lock, the first
\* transaction having written nothing yet.  On a tab that is not open it
\* answers 404 or 400 and writes nothing.
RivalClose(id, body) ==
    /\ close.pc \in {"idle", "select_orders", "update_payment", "done"}
    /\ body.paymentMethod \in {Some("efectivo"), Some("mercadopago")}
    /\ body.paymentMethod = Some("mercadopago")
           => body.mercadoPagoAccountId # Null
    /\ ~(HasDiscount(body) /\ HasText(body.discountReason))
    /\ open_accounts[id] # NoRow
    /\ open_accounts[id].status = "open"
    /\ orders' =
           {IF r.open_account_id = Some(id)
            THEN [r EXCEPT
                     !.payment_method = body.paymentMethod[1],
                     !.mercado_pago_account_id =
                         IF body.paymentMethod = Some("mercadopago")
                         THEN body.mercadoPagoAccountId ELSE Null,
                     !.closed_open_account_id = Some(id),
                     !.closed_open_account_name = Some(open_accounts[id].name),
                     !.open_account_id = Null]
            ELSE r : r \in orders}
    /\ open_accounts' =
           [open_accounts EXCEPT ![id] =
               [@ EXCEPT !.status = "closed",
                         !.payment_method_used = body.paymentMethod,
                         !.closed_discount = body.discount,
                         !.closed_discount_reason = Null]]
    /\ UNCHANGED <<close, create, order_counter>>

\* Two closes of t1 at the same time, next to the creation of an order.
NextTwice ==
    \/ NextRace
    \/ /\ RivalClose("t1", [paymentMethod |-> Some("mercadopago"),
                           mercadoPagoAccountId |-> Some("mp1"),
                           discount |-> Null, discountReason |-> Null])
       /\ UNCHANGED <<supplies, last, order_items, lock, tx, committed,
                      requests, startCounter>>
       /\ UNCHANGED stepVars

SpecTwice == InitRace /\ [][NextTwice]_vars

\* ------------------------------------------------------------------------
\* The other routes that write orders: PATCH /orders/:id/status and
\* DELETE /orders/:id, each one statement on the pool.
\* ------------------------------------------------------------------------

\* The close transaction has updated the row and not yet ended: another
\* statement on the row waits for its COMMIT or ROLLBACK.
RowLocked(id) ==
    /\ close.pc \in {"discount", "update_account", "commit"}
    /\ id \in DOMAIN close.writes

\* router.patch('/:id/status'): 400 for a status that is not one of the
\* four, else UPDATE orders SET status = $1 WHERE id = $2.
PatchStatus(id, status) ==
    /\ ~RowLocked(id)
    /\ orders' =
           IF status \notin {"pending", "preparing", "ready", "delivered"}
           THEN orders
           ELSE {IF r.id = id THEN [r EXCEPT !.status = status] ELSE r :
                    r \in orders}
    /\ UNCHANGED <<open_accounts, close, create, order_counter>>

\* router.delete('/:id'): DELETE FROM orders WHERE id = $1
DeleteOrder(id) ==
    /\ ~RowLocked(id)
    /\ orders' = {r \in orders : r.id # id}
    /\ UNCHANGED <<open_accounts, close, create, order_counter>>

\* Two open tabs: two orders on t1, one on t2, and one order on no tab.
InitLedger ==
    /\ orders = {TabOrder(1, 30, FALSE), TabOrder(2, 20, TRUE),
                 [TabOrder(3, 10, FALSE) EXCEPT !.open_account_id = Some("t2")],
                 CashOrder(4)}
    /\ order_counter = Some(String(4))
    /\ open_accounts = [id \in TabIds |->
                           IF id = "t3" THEN NoRow ELSE TabRow("open")]
    /\ close = [pc |-> "idle"]
    \* no creation is running, or one on t1 that read the counter row
    \* before the orders #3 and #4 were committed
    /\ create \in {[pc |-> "idle"],
                   [pc |-> "insert", openAccountId |-> "t1", total |-> 10,
                    nextNum |-> 3]}
    /\ NoSequencer
    /\ NoSteps

LedgerBodies ==
    {[paymentMethod |-> Some("efectivo"), mercadoPagoAccountId |-> Null,
      discount |-> d, discountReason |-> Some(<<"promo">>)] :
          d \in {Null, Some(45)}}
    \cup {[paymentMethod |-> Some("tarjeta"), mercadoPagoAccountId |-> Null,
           discount |-> Null, discountReason |-> Null]}

NextLedger ==
    /\ \/ \E build \in Builds, id \in TabIds, body \in LedgerBodies :
             CloseRequest(build, id, body)
       \/ SelectOrdersToDiscount
       \/ UpdatePayment
       \/ WalkStep
       \/ LastOrderDiscount
       \/ UpdateAccount
       \/ CloseCommit
       \/ CloseFails
       \/ \E id \in TabIds : CheckAccount(id, 10)
       \/ CreateOnTab
       \/ \E n \in {1, 3}, status \in {"ready", "paid"} :
             PatchStatus(OrderId(n), status)
       \/ \E n \in {2, 3} : DeleteOrder(OrderId(n))
    /\ UNCHANGED <<supplies, last, order_items, lock, tx, committed,
                   requests, startCounter>>
    /\ UNCHANGED stepVars

SpecLedger == InitLedger /\ [][NextLedger]_vars

\* ------------------------------------------------------------------------
\* Cash registers: POST /cash-registers and PATCH /cash-registers/:id/close,
\* each a sequence of statements on the pool, without a transaction.
\* ------------------------------------------------------------------------

\* router.post("/") up to its INSERT: the body must name a Mercado Pago
\* account, and SELECT id FROM cash_registers WHERE status = 'open' must
\* find no row.
OpenRegister(c, body) ==
    /\ cashiers[c].pc \in {"idle", "done"}
    /\ cashiers' = [cashiers EXCEPT ![c] =
           IF body.mercadoPagoAccountId = Null
           THEN [pc |-> "done", status |-> 400]
           ELSE IF \E id \in DOMAIN cash_registers :
                       /\ cash_registers[id] # NoRow
                       /\ cash_registers[id].status = "open"
           THEN [pc |-> "done", status |-> 400]
           ELSE [pc |-> "insert", body |-> body]]
    /\ UNCHANGED cash_registers

\* INSERT INTO cash_registers (...) VALUES (..., 'open') under a
\* randomUUID() no row holds, then the answer 201.
InsertRegister(c) ==
    /\ cashiers[c].pc = "insert"
    /\ \E id \in DOMAIN cash_registers :
          /\ cash_registers[id] = NoRow
          /\ cash_registers' = [cash_registers EXCEPT ![id] =
                 [mercado_pago_account_id |->
                      cashiers[c].body.mercadoPagoAccountId[1],
                  status |-> "open", closing_data |-> Null]]
    /\ cashiers' = [cashiers EXCEPT ![c] = [pc |-> "done", status |-> 201]]

\* router.patch("/:id/close") up to its UPDATE: closing data must be
\* given, the register must exist and must not be closed.
CloseRegister(c, id, closingData) ==
    /\ cashiers[c].pc \in {"idle", "done"}
    /\ cashiers' = [cashiers EXCEPT ![c] =
           IF closingData = Null THEN [pc |-> "done", status |-> 400]
           ELSE IF cash_registers[id] = NoRow
           THEN [pc |-> "done", status |-> 404]
           ELSE IF cash_registers[id].status = "closed"
           THEN [pc |-> "done", status |-> 400]
           ELSE [pc |-> "update", id |-> id, closingData |-> closingData]]
    /\ UNCHANGED cash_registers

\* UPDATE cash_registers SET status = 'closed', closed_at = $1,
\* closing_data = $2 WHERE id = $3, then the answer 200.
UpdateRegister(c) ==
    /\ cashiers[c].pc = "update"
    /\ cash_registers' = [cash_registers EXCEPT ![cashiers[c].id] =
           [@ EXCEPT !.status = "closed",
                     !.closing_data = cashiers[c].closingData]]
    /\ cashiers' = [cashiers EXCEPT ![c] = [pc |-> "done", status |-> 200]]

\* No register yet, two clients.
InitRegisters ==
    /\ cash_registers = [id \in {"r1", "r2", "r3"} |-> NoRow]
    /\ cashiers = [c \in {"c1", "c2"} |-> [pc |-> "idle"]]
    /\ menu_items = <<>>
    /\ writers = <<>>
    /\ deleter = [pc |-> "idle"]
    /\ walk = [pc |-> "idle"]
    /\ supplies = EmptyTable
    /\ last = NoRequest
    /\ NoOrders
    /\ NoTabs

NextRegisters ==
    /\ \/ \E c \in DOMAIN cashiers, account \in {Null, Some("mp1")} :
             OpenRegister(c, [mercadoPagoAccountId |-> account])
       \/ \E c \in DOMAIN cashiers : InsertRegister(c)
       \/ \E c \in DOMAIN cashiers, id \in DOMAIN cash_registers,
               closingData \in {Null, Some("a"), Some("b")} :
             CloseRegister(c, id, closingData)
       \/ \E c \in DOMAIN cashiers : UpdateRegister(c)
    /\ UNCHANGED <<supplies, last, menu_items, writers, deleter, walk>>
    /\ UNCHANGED orderVars
    /\ UNCHANGED tabVars

SpecRegisters == InitRegisters /\ [][NextRegisters]_vars

\* ------------------------------------------------------------------------
\* The order sequencer with clients that send a creation again when it
\* failed on a conflict
\* ------------------------------------------------------------------------

\* A mutant of RetryOrder: the new attempt takes the number the counter
\* row holds instead of the one after it.
RetryOrderSameNumber(p, nItems) ==
    /\ tx[p].pc = "500"
    /\ tx[p].failedAt = "insert_order"
    /\ tx' = [tx EXCEPT ![p] =
                 [pc |-> "upsert_counter", request |-> tx[p].request,
                  items |-> nItems, seen |-> order_counter,
                  nextNum |-> parseInt(order_counter[1]),
                  counterWrite |-> Null, orderRows |-> {}, itemRows |-> {},
                  retried |-> TRUE]]
    /\ UNCHANGED <<order_counter, orders, order_items, lock, committed,
                   requests, startCounter>>

\* The client of a creation answered 500 for the unique violation of its
\* INSERT sends the same request again: router.post('/') from the start,
\* BEGIN and the read of the counter included.
RetryOrder(p, nItems) ==
    /\ tx[p].pc = "500"
    /\ tx[p].failedAt = "insert_order"
    /\ tx' = [tx EXCEPT ![p] =
                 [pc |-> "select_counter", request |-> tx[p].request,
                  items |-> nItems, seen |-> Null, nextNum |-> 0,
                  counterWrite |-> Null, orderRows |-> {}, itemRows |-> {},
                  retried |-> TRUE]]
    /\ UNCHANGED <<order_counter, orders, order_items, lock, committed,
                   requests, startCounter>>

\* Requests of one item each; no statement fails for a reason of its own,
\* and no client gives up.
NextRetry ==
    /\ \/ \E p \in Clients : PostOrder(p, 1)
       \/ \E p \in Clients : SelectCounter(p)
       \/ \E p \in Clients : SelectMax(p)
       \/ \E p \in Clients : UpsertCounter(p)
       \/ \E p \in Clients : InsertOrder(p)
       \/ \E p \in Clients : InsertItem(p)
       \/ \E p \in Clients : Commit(p)
       \/ \E p \in Clients : tx[p].pc # "500" /\ OrderResponse(p)
       \/ \E p \in Clients : RetryOrder(p, 1)
    /\ UNCHANGED <<supplies, last>>
    /\ UNCHANGED tabVars
    /\ UNCHANGED stepVars

\* Every handler and every client that has something to do gets its turn.
SpecRetry ==
    /\ InitOrders
    /\ [][NextRetry]_vars
    /\ \A p \in Clients : WF_vars(NextRetry /\ tx'[p] # tx[p])

\* ------------------------------------------------------------------------
\* The order sequencer next to DELETE /orders/:id
\* ------------------------------------------------------------------------

\* The sequencer, and the deletion of a committed order; its items go with
\* it (order_items.order_id ... ON DELETE CASCADE).
NextPurge ==
    \/ NextOrders
    \/ /\ \E r \in orders : DeleteOrder(r.id)
       /\ order_items' = {i \in order_items :
                             \E r \in orders' : r.id = i.order_id}
       /\ UNCHANGED <<supplies, last, lock, tx, committed, requests,
                      startCounter>>
       /\ UNCHANGED stepVars

SpecPurge == InitOrders /\ [][NextPurge]_vars

\* ------------------------------------------------------------------------
\* The supply routes statement by statement: POST /supplies, PUT
\* /supplies/:id and DELETE /supplies/:id each run several statements on
\* the pool, outside any transaction, so the statements of two requests
\* interleave; PUT /menu/:id is one UPDATE.
\* ------------------------------------------------------------------------

\* The clients that write supplies at the same time.
Writers == {"w1", "w2"}

MenuIds == {"m1"}

\* normalizeMenuRecipe: the lines that carry a supply id and a quantity.
normalizeMenuRecipe(recipe) ==
    LET kept == SelectSeq(recipe, LAMBDA line : line.supplyId # Null
                                               /\ line.quantity # Null)
    IN  [k \in 1..Len(kept) |->
            [supplyId |-> kept[k].supplyId[1], quantity |-> kept[k].quantity[1]]]

\* recipe.some((line) => (line?.supplyId ?? line?.supply_id) === id) on the
\* parsed recipe column of a row.
HasRef(recipeJson, id) ==
    /\ parseRecipe(recipeJson) # Null
    /\ \E k \in 1..Len(parseRecipe(recipeJson)[1]) :
          parseRecipe(recipeJson)[1][k].supplyId = Some(id)

\* PUT /menu/:id: one UPDATE of the row; 404 when there is none.
PutMenuItem(m, recipe) ==
    /\ menu_items[m] # NoRow
    /\ menu_items' =
           [menu_items EXCEPT ![m] = StringifyLines(normalizeMenuRecipe(recipe))]
    /\ UNCHANGED <<supplies, writers, deleter>>

\* router.post('/') and router.put('/:id') up to the load of the snapshot:
\* the checks on the body.
WriteRequest(w, op, id, body) ==
    /\ writers[w].pc = "idle"
    /\ writers' = [writers EXCEPT ![w] =
           IF RulesError(id, body) # "none"
           THEN [pc |-> "done", op |-> op, id |-> id, body |-> body,
                 status |-> 400, error |-> RulesError(id, body)]
           ELSE [pc |-> "select_all", op |-> op, id |-> id, body |-> body]]
    /\ UNCHANGED <<supplies, menu_items, deleter>>

\* SELECT ... FROM supplies, then the cycle check on the rows read.
SelectAllSupplies(w) ==
    /\ writers[w].pc = "select_all"
    /\ writers' = [writers EXCEPT ![w] =
           IF CycleCheck(supplies, Candidate(writers[w].id, writers[w].body))
           THEN [pc |-> "done", op |-> writers[w].op, id |-> writers[w].id,
                 body |-> writers[w].body, status |-> 400,
                 error |-> "circular"]
           ELSE [pc |-> "write", op |-> writers[w].op, id |-> writers[w].id,
                 body |-> writers[w].body, allRows |-> supplies]]
    /\ UNCHANGED <<supplies, menu_items, deleter>>

\* The INSERT (409 on a duplicate key) or the UPDATE (404 when no row
\* matches) of the candidate.
WriteSupply(w) ==
    /\ writers[w].pc = "write"
    /\ LET id == writers[w].id
           answer(status, error) ==
               [pc |-> "done", op |-> writers[w].op, id |-> id,
                body |-> writers[w].body, status |-> status, error |-> error]
       IN  IF writers[w].op = "post" /\ supplies[id] # NoRow
           THEN /\ writers' = [writers EXCEPT ![w] = answer(409, "exists")]
                /\ UNCHANGED supplies
           ELSE IF writers[w].op = "put" /\ supplies[id] = NoRow
           THEN /\ writers' = [writers EXCEPT ![w] = answer(404, "missing")]
                /\ UNCHANGED supplies
           ELSE /\ supplies' =
                       [supplies EXCEPT ![id] = StoredRow(writers[w].body)]
                /\ writers' = [writers EXCEPT ![w] =
                       [writers[w] EXCEPT !.pc = "select_row"]]
    /\ UNCHANGED <<menu_items, deleter>>

\* SELECT ... WHERE id = $1 and the response: rowToSupplyInternal of a row
\* that is gone throws, and the outer catch answers 500.
SelectWrittenRow(w) ==
    /\ writers[w].pc = "select_row"
    /\ writers' = [writers EXCEPT ![w] =
           [pc |-> "done", op |-> writers[w].op, id |-> writers[w].id,
            body |-> writers[w].body,
            status |-> IF supplies[writers[w].id] = NoRow THEN 500
                       ELSE IF writers[w].op = "post" THEN 201 ELSE 200,
            error |-> IF supplies[writers[w].id] = NoRow THEN "internal"
                      ELSE "none"]]
    /\ UNCHANGED <<supplies, menu_items, deleter>>

\* router.delete('/:id')
DeleteRequest(id) ==
    /\ deleter.pc = "idle"
    /\ deleter' = [pc |-> "select_menu", id |-> id]
    /\ UNCHANGED <<supplies, menu_items, writers>>

\* SELECT id, recipe FROM menu_items and the loop over its rows.
SelectMenuItems ==
    /\ deleter.pc = "select_menu"
    /\ deleter' =
           IF \E m \in DOMAIN menu_items :
                 menu_items[m] # NoRow /\ HasRef(menu_items[m], deleter.id)
           THEN [pc |-> "done", id |-> deleter.id, status |-> 400,
                 error |-> "menu"]
           ELSE [pc |-> "select_supplies", id |-> deleter.id]
    /\ UNCHANGED <<supplies, menu_items, writers>>

\* SELECT id, recipe FROM supplies and the loop over the other rows.
SelectSupplies ==
    /\ deleter.pc = "select_supplies"
    /\ deleter' =
           IF \E i \in DOMAIN supplies :
                 /\ i # deleter.id
                 /\ supplies[i] # NoRow
                 /\ HasRef(supplies[i].recipe, deleter.id)
           THEN [pc |-> "done", id |-> deleter.id, status |-> 400,
                 error |-> "supply"]
           ELSE [pc |-> "delete", id |-> deleter.id]
    /\ UNCHANGED <<supplies, menu_items, writers>>

\* DELETE FROM supplies WHERE id = $1
DeleteSupply ==
    /\ deleter.pc = "delete"
    /\ supplies' = [supplies EXCEPT ![deleter.id] = NoRow]
    /\ deleter' = [pc |-> "done", id |-> deleter.id,
                   status |-> IF supplies[deleter.id] = NoRow THEN 404
                              ELSE 204,
                   error |-> IF supplies[deleter.id] = NoRow THEN "missing"
                             ELSE "none"]
    /\ UNCHANGED <<menu_items, writers>>

\* ---- the tables and requests explored ----

RecipeOf(ids) ==
    [k \in 1..Len(ids) |-> [supplyId |-> Some(ids[k]), quantity |-> Some(1)]]

ComposedOf(ids) == ComposedRow(JsonArray(RecipeOf(ids)), Some(10))

\* A and B are stored, C may be; A may be made of B.
StoredTables ==
    {[id \in SupplyIds |-> IF id = "A" THEN a ELSE IF id = "B" THEN b ELSE c] :
        a \in {PurchasedRow(Some(5), Some(1)), ComposedOf(<<"B">>)},
        b \in {PurchasedRow(Some(5), Some(1))},
        c \in {NoRow, PurchasedRow(Some(5), Some(1))}}

MenuRecipes == {<<>>, RecipeOf(<<"A">>), RecipeOf(<<"C">>)}

\* Bodies that pass the checks, and one that does not.
WriterBodies ==
    {ValidPurchased, [ValidPurchased EXCEPT !.name = Null]}
    \cup {[name |-> Some("n"), type |-> Some("composed"), unit |-> Null,
           purchasePrice |-> Null, purchaseQuantity |-> Null,
           recipe |-> Some(RecipeOf(<<i>>)), yieldAmount |-> Some(10),
           yieldUnit |-> Some("g")] : i \in SupplyIds}

InitWriters ==
    /\ supplies \in StoredTables
    /\ menu_items \in [MenuIds -> {JsonArray(r) : r \in MenuRecipes}]
    /\ writers = [w \in Writers |-> [pc |-> "idle"]]
    /\ deleter = [pc |-> "idle"]
    /\ walk = [pc |-> "idle"]
    /\ cash_registers = <<>>
    /\ cashiers = <<>>
    /\ last = NoRequest
    /\ NoOrders
    /\ NoTabs

NextWriters ==
    /\ \/ \E w \in Writers, id \in SupplyIds, body \in WriterBodies :
             WriteRequest(w, IF id = "C" THEN "post" ELSE "put", id, body)
       \/ \E w \in Writers : SelectAllSupplies(w)
       \/ \E w \in Writers : WriteSupply(w)
       \/ \E w \in Writers : SelectWrittenRow(w)
       \/ \E id \in SupplyIds : DeleteRequest(id)
       \/ SelectMenuItems
       \/ SelectSupplies
       \/ DeleteSupply
       \/ \E m \in MenuIds, recipe \in MenuRecipes : PutMenuItem(m, recipe)
    /\ UNCHANGED <<last, walk, cash_registers, cashiers>>
    /\ UNCHANGED orderVars
    /\ UNCHANGED tabVars

SpecWriters == InitWriters /\ [][NextWriters]_vars

\* ------------------------------------------------------------------------
\* getSupplyCostPerUnit statement by statement: the calls in progress are
\* a stack of frames, each with its own visited Set, the index of the
\* recipe line it is at and its running total.  suppliesById is the object
\* every call receives by reference.
\* ------------------------------------------------------------------------

Top(stack) == stack[Len(stack)]

Pop(stack) == SubSeq(stack, 1, Len(stack) - 1)

\* A caller's getSupplyCostPerUnit(supply, suppliesById): visited defaults
\* to a new Set.
StartWalk(id) ==
    /\ walk.pc = "idle"
    /\ supplies[id] # NoRow
    /\ walk' = [pc |-> "call", suppliesById |-> SuppliesById(supplies),
                root |-> id, stack |-> <<>>,
                arg |-> [id |-> id, visited |-> {}], ret |-> Unknown,
                result |-> Unknown, first |-> Null]
    /\ UNCHANGED supplies

\* A mutant of EnterCall: no check of visited.
EnterCallNoVisited ==
    /\ walk.pc = "call"
    /\ LET supply == walk.suppliesById[walk.arg.id]
       IN  walk' =
               IF supply.type = "purchased"
               THEN [walk EXCEPT !.pc = "return", !.ret = PurchasedCost(supply)]
               ELSE IF \/ Len(supply.recipe) = 0
                       \/ supply.yield_amount = Null
                       \/ supply.yield_amount[1] <= 0
               THEN [walk EXCEPT !.pc = "return", !.ret = Unknown]
               ELSE [walk EXCEPT
                        !.pc = "loop",
                        !.stack = Append(walk.stack,
                                      [id |-> supply.id,
                                       visited |-> walk.arg.visited
                                                       \cup {supply.id},
                                       i |-> 1, total |-> Zero])]
    /\ UNCHANGED supplies

\* The body of a call up to its for loop (lines 74-89): the throw, the
\* purchased branch, the two early returns of the composed branch.  The
\* finally of a call that returns here deletes from a Set no one else
\* holds.
EnterCall ==
    /\ walk.pc = "call"
    /\ LET supply == walk.suppliesById[walk.arg.id]
       IN  walk' =
               IF supply.id \in walk.arg.visited
               THEN [walk EXCEPT !.pc = "throw"]
               ELSE IF supply.type = "purchased"
               THEN [walk EXCEPT !.pc = "return", !.ret = PurchasedCost(supply)]
               ELSE IF \/ Len(supply.recipe) = 0
                       \/ supply.yield_amount = Null
                       \/ supply.yield_amount[1] <= 0
               THEN [walk EXCEPT !.pc = "return", !.ret = Unknown]
               ELSE [walk EXCEPT
                        !.pc = "loop",
                        !.stack = Append(walk.stack,
                                      [id |-> supply.id,
                                       visited |-> walk.arg.visited
                                                       \cup {supply.id},
                                       i |-> 1, total |-> Zero])]
    /\ UNCHANGED supplies

\* A mutant of LoopStep: the loop writes to the supply it walks.
LoopStepWritesSupply ==
    /\ walk.pc = "loop"
    /\ LET frame == Top(walk.stack)
           supply == walk.suppliesById[frame.id]
       IN  walk' =
               IF frame.i > Len(supply.recipe)
               THEN [walk EXCEPT
                        !.pc = "return",
                        !.stack = Pop(walk.stack),
                        !.ret = DivBy(frame.total, supply.yield_amount[1])]
               ELSE IF supply.recipe[frame.i].supplyId
                           \notin DOMAIN walk.suppliesById
               THEN [walk EXCEPT !.pc = "return",
                                 !.stack = Pop(walk.stack),
                                 !.ret = Unknown]
               ELSE [walk EXCEPT
                        !.pc = "call",
                        !.suppliesById =
                            [walk.suppliesById EXCEPT
                                ![frame.id].yield_amount =
                                    Some(supply.yield_amount[1] + 1)],
                        !.arg = [id |-> supply.recipe[frame.i].supplyId,
                                 visited |-> frame.visited]]
    /\ UNCHANGED supplies

\* One pass of the for loop up to the recursive call (lines 90-93), or the
\* return after the last line (line 97).  The call gets new Set(visited).
LoopStep ==
    /\ walk.pc = "loop"
    /\ LET frame == Top(walk.stack)
           supply == walk.suppliesById[frame.id]
       IN  walk' =
               IF frame.i > Len(supply.recipe)
               THEN [walk EXCEPT
                        !.pc = "return",
                        !.stack = Pop(walk.stack),
                        !.ret = DivBy(frame.total, supply.yield_amount[1])]
               ELSE IF supply.recipe[frame.i].supplyId
                           \notin DOMAIN walk.suppliesById
               THEN [walk EXCEPT !.pc = "return",
                                 !.stack = Pop(walk.stack),
                                 !.ret = Unknown]
               ELSE [walk EXCEPT
                        !.pc = "call",
                        !.arg = [id |-> supply.recipe[frame.i].supplyId,
                                 visited |-> frame.visited]]
    /\ UNCHANGED supplies

\* A call returned subCost to the loop of its caller (lines 94-95), or the
\* outermost call returned to the route.
ReturnStep ==
    /\ walk.pc = "return"
    /\ walk' =
           IF walk.stack = <<>>
           THEN [walk EXCEPT !.pc = "done", !.result = walk.ret]
           ELSE LET frame == Top(walk.stack)
                    line == walk.suppliesById[frame.id].recipe[frame.i]
                IN  IF walk.ret.k = "null"
                    THEN [walk EXCEPT !.stack = Pop(walk.stack),
                                      !.ret = Unknown]
                    ELSE [walk EXCEPT
                             !.pc = "loop",
                             !.stack = [walk.stack EXCEPT
                                 ![Len(walk.stack)] =
                                     [frame EXCEPT
                                         !.i = frame.i + 1,
                                         !.total = AddScaled(frame.total,
                                                       walk.ret,
                                                       line.quantity)]]]
    /\ UNCHANGED supplies

\* The throw of line 75 leaves the calls in progress one by one, through
\* the finally of each, and reaches the route.
ThrowStep ==
    /\ walk.pc = "throw"
    /\ walk' =
           IF walk.stack = <<>>
           THEN [walk EXCEPT !.pc = "done", !.result = CycleDetected]
           ELSE [walk EXCEPT !.stack = Pop(walk.stack)]
    /\ UNCHANGED supplies

\* The caller resolves the same supply on the same suppliesById again.
WalkAgain ==
    /\ walk.pc = "done"
    /\ walk.first = Null
    /\ walk' = [pc |-> "call", suppliesById |-> walk.suppliesById,
                root |-> walk.root, stack |-> <<>>,
                arg |-> [id |-> walk.root, visited |-> {}],
                ret |-> Unknown, result |-> Unknown,
                first |-> Some(walk.result)]
    /\ UNCHANGED supplies

\* The rows of a walked table: purchased with a price, with price 0,
\* without price; composed of one or two of the other supplies.
WalkRows(id) ==
    {NoRow, PurchasedRow(Some(5), Some(1)), PurchasedRow(Some(0), Some(2)),
     PurchasedRow(Null, Some(1))}
    \cup {ComposedOf(r) : r \in SeqsFromTo(SupplyIds \ {id}, 1, 2)}

WalkTables ==
    {[id \in SupplyIds |-> IF id = "A" THEN a ELSE IF id = "B" THEN b ELSE c] :
        a \in WalkRows("A"), b \in WalkRows("B"), c \in WalkRows("C")}

InitWalk ==
    /\ supplies \in WalkTables
    /\ walk = [pc |-> "idle"]
    /\ menu_items = <<>>
    /\ writers = <<>>
    /\ deleter = [pc |-> "idle"]
    /\ cash_registers = <<>>
    /\ cashiers = <<>>
    /\ last = NoRequest
    /\ NoOrders
    /\ NoTabs

NextWalk ==
    /\ \/ \E id \in SupplyIds : StartWalk(id)
       \/ EnterCall
       \/ LoopStep
       \/ ReturnStep
       \/ ThrowStep
       \/ WalkAgain
    /\ UNCHANGED <<last, menu_items, writers, deleter, cash_registers,
                   cashiers>>
    /\ UNCHANGED orderVars
    /\ UNCHANGED tabVars

SpecWalk == InitWalk /\ [][NextWalk]_vars

\* The event loop runs a synchronous call to its end.
SpecWalkLive == SpecWalk /\ WF_vars(NextWalk)

\* ------------------------------------------------------------------------
\* The recipe graph of a table, defined without the resolver
\* ------------------------------------------------------------------------

\* The ids the recipe of supply i names (none for a purchased or missing one).
Successors(byId, i) ==
    IF i \in DOMAIN byId /\ byId[i].type # "purchased"
    THEN {byId[i].recipe[k].supplyId : k \in 1..Len(byId[i].recipe)}
    ELSE {}

RECURSIVE Closure(_, _)
Closure(byId, S) ==
    LET T == S \cup UNION {Successors(byId, i) : i \in S}
    IN  IF T = S THEN S ELSE Closure(byId, T)

\* The ids reachable from i along one or more recipe lines.
ReachPlus(byId, i) == Closure(byId, Successors(byId, i))

ReachStar(byId, i) == {i} \cup ReachPlus(byId, i)

OnCycle(byId, i) == i \in ReachPlus(byId, i)

ReachesCycle(byId, i) == \E j \in ReachStar(byId, i) : OnCycle(byId, j)

\* Some supply on the way from i (i included) has a line naming a missing supply.
DependsOnDangling(byId, i) ==
    \E j \in ReachStar(byId, i) : \E t \in Successors(byId, j) : t \notin DOMAIN byId

\* The supply has the fields its kind needs for a cost.
NodeComplete(sup) ==
    IF sup.type = "purchased"
    THEN sup.purchase_price # Null /\ sup.purchase_quantity # Null
         /\ sup.purchase_quantity[1] > 0
    ELSE Len(sup.recipe) > 0 /\ sup.yield_amount # Null /\ sup.yield_amount[1] > 0

\* Every supply reachable from i exists and has complete cost data.
DataComplete(byId, i) ==
    \A j \in ReachStar(byId, i) : j \in DOMAIN byId /\ NodeComplete(byId[j])

\* ------------------------------------------------------------------------
\* Claims about the resolver and the read endpoints (SpecCost)
\* ------------------------------------------------------------------------

ById == SuppliesById(supplies)

\* The cost of a recipe line resolved on its own; Unknown for a missing supply.
LineCost(byId, line) ==
    IF line.supplyId \notin DOMAIN byId THEN Unknown
    ELSE getSupplyCostPerUnit(byId[line.supplyId], byId, {})

\* The sum over the lines of quantity x cost, as a pair <<numerator, denominator>>.
RECURSIVE SumLines(_, _)
SumLines(byId, recipe) ==
    IF recipe = <<>> THEN <<0, 1>>
    ELSE LET c == LineCost(byId, Head(recipe))
             r == SumLines(byId, Tail(recipe))
         IN  <<r[1] * c.d + Head(recipe).quantity * c.n * r[2], r[2] * c.d>>

\* last is the resolution of a composed supply with a recipe and a yield > 0.
ResolvedComposed ==
    /\ last.op = "resolve"
    /\ ById[last.id].type = "composed"
    /\ Len(ById[last.id].recipe) > 0
    /\ ById[last.id].yield_amount # Null
    /\ ById[last.id].yield_amount[1] > 0

LineKinds == [k \in 1..Len(ById[last.id].recipe) |-> LineCost(ById, ById[last.id].recipe[k]).k]

AllLinesKnown == \A k \in DOMAIN LineKinds : LineKinds[k] = "num"

SomeLineUnknown == \E k \in DOMAIN LineKinds : LineKinds[k] = "null"

FirstUnknownLine ==
    CHOOSE k \in DOMAIN LineKinds :
        LineKinds[k] = "null" /\ \A j \in 1..(k - 1) : LineKinds[j] # "null"

WeightedSumOverYield ==
    LET sum == SumLines(ById, ById[last.id].recipe)
    IN  /\ last.result.k = "num"
        /\ last.result.n * sum[2] * ById[last.id].yield_amount[1] = sum[1] * last.result.d

\* C1 as stated: a composed supply whose lines all resolve to a number costs
\* (sum of quantity x line cost) / yield, and one with a line that is Unknown
\* or missing resolves to Unknown.
C1_AnyUnknownLineGivesUnknown ==
    ResolvedComposed =>
        /\ AllLinesKnown => WeightedSumOverYield
        /\ SomeLineUnknown => last.result = Unknown

\* C1 amended: a composed supply whose lines all resolve to a number costs
\* (sum of quantity x line cost) / yield; with a line that is Unknown or
\* missing the result is never a number: it is Unknown, unless a line before
\* the first such line raises CycleDetected, which then propagates.
C1_WeightedSumOrNoNumber ==
    ResolvedComposed =>
        /\ AllLinesKnown => WeightedSumOverYield
        /\ SomeLineUnknown =>
              last.result = IF \E j \in 1..(FirstUnknownLine - 1) : LineKinds[j] = "throw"
                            THEN CycleDetected
                            ELSE Unknown

\* The example of the specification: A = 2 x B over yield 10, B bought at 5 for 1.
C1_Witness ==
    /\ last.op = "resolve" /\ last.id = "A"
    /\ supplies["A"] = ComposedRow(JsonArray(<<[supplyId |-> Some("B"),
                                                quantity |-> Some(2)]>>), Some(10))
    /\ supplies["B"] = PurchasedRow(Some(5), Some(1))
    /\ last.result = Quot(1, 1)

\* C2: a purchased supply with a price and a quantity > 0 costs price / quantity;
\* without a price, or with a quantity that is absent or <= 0, its cost is Unknown.
C2_PurchasedCost ==
    (last.op = "resolve" /\ ById[last.id].type = "purchased") =>
        LET price == ById[last.id].purchase_price
            qty == ById[last.id].purchase_quantity
        IN  IF price # Null /\ qty # Null /\ qty[1] > 0
            THEN /\ last.result.k = "num"
                 /\ last.result.n * qty[1] = price[1] * last.result.d
            ELSE last.result = Unknown

C2_Witness ==
    /\ last.op = "resolve"
    /\ supplies[last.id] = PurchasedRow(Some(5), Some(2))
    /\ last.result = Quot(5, 2)

\* C5: whatever table is stored, a supply on a recipe cycle never resolves to a
\* number, and the list and by-id endpoints report it without a cost.
C5_NoCostOnCycle ==
    /\ last.op = "resolve" =>
          (OnCycle(ById, last.id) => last.result.k # "num")
    /\ last.op = "list" =>
          \A id \in DOMAIN last.items : OnCycle(ById, id) => ~last.items[id].hasCost
    /\ (last.op = "get" /\ last.status = 200) =>
          (OnCycle(ById, last.id) => ~last.item.hasCost)

\* The by-id endpoint answers for a supply on a cycle of three complete supplies.
C5_Witness ==
    /\ last.op = "get" /\ last.status = 200 /\ last.id = "A"
    /\ \A i \in SupplyIds : i \in DOMAIN ById /\ NodeComplete(ById[i])
    /\ Successors(ById, "A") = {"B"}
    /\ Successors(ById, "B") = {"C"}
    /\ Successors(ById, "C") = {"A"}
    /\ ~last.item.hasCost

\* The table without the supplies that are on, or reach, a recipe cycle.
WithoutCyclic(table) ==
    [i \in DOMAIN table |->
        IF ReachesCycle(SuppliesById(table), i) THEN NoRow ELSE table[i]]

\* C6: the listing answers 200 with every stored supply; a supply on or
\* reaching a cycle has no cost; a supply whose reachable sub-graph is acyclic
\* and complete has the numeric cost it has in the table without the cyclic
\* supplies.
C6_ListingIsolatesCycles ==
    last.op = "list" =>
        /\ last.status = 200
        /\ DOMAIN last.items = DOMAIN ById
        /\ \A id \in DOMAIN ById :
              /\ ReachesCycle(ById, id) => ~last.items[id].hasCost
              /\ (~ReachesCycle(ById, id) /\ DataComplete(ById, id)) =>
                    LET rest == SuppliesById(WithoutCyclic(supplies))
                        alone == getSupplyCostPerUnit(rest[id], rest, {})
                    IN  /\ alone.k = "num"
                        /\ last.items[id].hasCost
                        /\ last.items[id].costPerUnit = alone

\* A listing with a supply on a cycle beside one that has a numeric cost.
C6_Witness ==
    /\ last.op = "list"
    /\ \E i, j \in DOMAIN last.items :
          /\ OnCycle(ById, i) /\ ~last.items[i].hasCost
          /\ ~ReachesCycle(ById, j) /\ ById[j].type = "composed"
          /\ last.items[j].hasCost

\* C7 as stated: a supply that depends on a line naming a missing supply
\* resolves to Unknown (the resolver does not throw).
C7_DanglingGivesUnknown ==
    (last.op = "resolve" /\ DependsOnDangling(ById, last.id)) => last.result = Unknown

\* C7 amended: a supply that depends on a line naming a missing supply never
\* resolves to a number; it resolves to Unknown whenever no recipe cycle is
\* reachable from it, and the resolver throws only where a cycle is reachable.
C7_DanglingNeverNumber ==
    (last.op = "resolve" /\ DependsOnDangling(ById, last.id)) =>
        /\ last.result.k # "num"
        /\ ~ReachesCycle(ById, last.id) => last.result = Unknown

\* A supply resolved to Unknown through an intermediate supply whose second
\* line names a missing supply.
C7_Witness ==
    /\ last.op = "resolve" /\ last.id = "A"
    /\ Successors(ById, "A") = {"B"}
    /\ "B" \in DOMAIN ById
    /\ "C" \notin DOMAIN ById
    /\ Len(ById["B"].recipe) = 2
    /\ ById["B"].recipe[2].supplyId = "C"
    /\ ~ReachesCycle(ById, "A")
    /\ last.result = Unknown

\* ------------------------------------------------------------------------
\* Claims about the cycle check of the write routes (SpecSupply)
\* ------------------------------------------------------------------------

IsWrite == last.op \in {"post", "put"}

\* The body names a supply the routes can build a candidate from.
HasCandidate ==
    /\ last.body.name # Null
    /\ last.body.type # Null
    /\ last.body.type[1] \in {"purchased", "composed"}

\* The graph the request would leave: the snapshot with the candidate in place
\* of its id.
Prospective == WithCandidate(SuppliesById(last.before), Candidate(last.id, last.body))

\* C3: a candidate that passes the field rules and whose prospective graph has
\* a recipe cycle through it is rejected with the circular-reference error,
\* whatever costs are Unknown.
C3_CycleRejectedWhateverTheCost ==
    (IsWrite /\ HasCandidate /\ RulesError(last.id, last.body) = "none"
        /\ OnCycle(Prospective, last.id))
    => (last.status = 400 /\ last.error = "circular")

\* C4: when every supply reachable from the candidate exists and has complete
\* cost data, a create or update whose prospective graph has a recipe cycle
\* through the candidate is answered 400 and the table is left as it was.
C4_CompleteCycleRejected ==
    (IsWrite /\ HasCandidate /\ OnCycle(Prospective, last.id)
        /\ DataComplete(Prospective, last.id))
    => (last.status = 400 /\ supplies = last.before)

\* An update rejected as circular for a cycle of three complete supplies.
C4_Witness ==
    /\ last.op = "put" /\ last.id = "A" /\ HasCandidate
    /\ Successors(Prospective, "A") = {"B"}
    /\ Successors(Prospective, "B") = {"C"}
    /\ Successors(Prospective, "C") = {"A"}
    /\ DataComplete(Prospective, "A")
    /\ last.status = 400 /\ last.error = "circular"
    /\ supplies = last.before

\* ------------------------------------------------------------------------
\* Claims on the order sequencer (SpecOrders)
\* ------------------------------------------------------------------------

CommittedNumbers == {IdNumber(committed[i].id) : i \in 1..Len(committed)}

\* C8: concurrent order creations never commit two orders with the same id
\* (the committed ids are pairwise distinct, in the log of commits and in
\* the orders table), and the numbers they commit are exactly the next
\* ones after the starting counter: a failed attempt leaves no gap.
C8_DistinctIdsNoGap ==
    /\ \A i, j \in 1..Len(committed) :
           i # j => committed[i].id # committed[j].id
    /\ \A r1, r2 \in orders : r1.id = r2.id => r1 = r2
    /\ CommittedNumbers = (startCounter + 1)..(startCounter + Len(committed))

\* A creation has committed next to the orders already stored, and the
\* attempt that ran at the same time has failed on the id it took.
C8_Witness ==
    /\ committed # <<>>
    /\ Cardinality(orders) >= 2
    /\ \E p \in Clients : tx[p].pc = "500" /\ tx[p].failedAt = "insert_order"

\* C9: two open order-creation transactions never hold the same value read
\* from the order_counter row.
C9_NoSharedCounterRead ==
    \A p, q \in Clients :
        (/\ p # q
         /\ tx[p].pc \in AfterCounterRead
         /\ tx[q].pc \in AfterCounterRead
         /\ tx[p].seen # Null
         /\ tx[q].seen # Null)
        => tx[p].seen # tx[q].seen

\* C10: the step in which a transaction that has read the counter aborts
\* leaves the counter row, the orders and the order items as they were,
\* and what the transaction wrote before is in none of them.
C10_RollbackRestores ==
    [][\A p \in Clients :
          (tx[p].pc \in AfterCounterRead /\ tx'[p].pc = "500")
          => (/\ order_counter' = order_counter
              /\ orders' = orders
              /\ order_items' = order_items
              /\ tx[p].orderRows \cap orders = {}
              /\ tx[p].itemRows \cap order_items = {})]_vars

\* A transaction has aborted on an item insert, after its counter upsert
\* and its order insert, while the counter row exists.
C10_Witness ==
    \E p \in Clients :
        /\ tx[p].pc = "500"
        /\ tx[p].failedAt = "insert_item"
        /\ order_counter # Null

\* C11: the k-th creation that commits gets the id "#" + (c + k), c being
\* the number the run started from, so ids increase by one in commit
\* order; and once a creation has committed, the counter row holds the
\* number of the last committed creation.
C11_KthCommitGetsCPlusK ==
    /\ \A k \in 1..Len(committed) :
           committed[k].id = <<"#">> \o String(startCounter + k)
    /\ \A k \in 1..(Len(committed) - 1) :
           IdNumber(committed[k].id) < IdNumber(committed[k + 1].id)
    /\ committed # <<>>
           => order_counter = Some(String(IdNumber(committed[Len(committed)].id)))

\* Two creations have committed from counter 9: ids "#10" and "#11".
C11_Witness ==
    /\ startCounter = 9
    /\ Len(committed) = 2
    /\ order_counter = Some(<<"1", "1">>)

\* The largest number n with an order "#n" stored, 0 when there is none.
LargestSuffix ==
    LET ns == {n \in 1..(startCounter + requests) :
                  \E r \in orders : r.id = OrderId(n)}
    IN  IF ns = {} THEN 0 ELSE CHOOSE n \in ns : \A m \in ns : m <= n

\* C12: a transaction that finds the counter row takes its value + 1; one
\* that finds no row takes 1 + the largest numeric suffix of the stored
\* order ids (1 when there are no orders); and its commit writes the
\* counter row with that number together with the order of that number.
C12_NextNumber ==
    [][\A p \in Clients :
          /\ (tx[p].pc = "select_counter" /\ tx'[p].pc = "upsert_counter")
                 => order_counter = Some(String(tx'[p].nextNum - 1))
          /\ (tx[p].pc = "select_max" /\ tx'[p].pc = "upsert_counter")
                 => tx'[p].nextNum = 1 + LargestSuffix
          /\ (tx[p].pc = "commit" /\ tx'[p].pc = "201")
                 => /\ order_counter' = Some(String(tx[p].nextNum))
                    /\ \E r \in orders' \ orders :
                           r.id = OrderId(tx[p].nextNum)]_vars

\* No counter row, orders "#8" and "#9" stored: the transaction has
\* derived 10 and is about to create the row.
C12_Witness ==
    \E p \in Clients :
        /\ order_counter = Null
        /\ Cardinality(orders) = 2
        /\ tx[p].pc = "upsert_counter"
        /\ tx[p].seen = Null
        /\ tx[p].nextNum = 10

\* ------------------------------------------------------------------------
\* Claims on the tab close (SpecClose, SpecRace)
\* ------------------------------------------------------------------------

\* The close request has been answered 200.
Closed200 == close.pc = "done" /\ close.status = 200

\* The request carries a discount > 0 and a reason with text.
DiscountWanted ==
    HasDiscount(close.body) /\ HasText(close.body.discountReason)

\* The orders the tab held when the request arrived, newest first: the
\* i-th is the one with i - 1 orders of the tab created after it.
TabBefore ==
    LET rows == {r \in close.before.orders : r.open_account_id = Some(close.id)}
    IN  [i \in 1..Cardinality(rows) |->
            CHOOSE r \in rows :
                Cardinality({s \in rows : s.created_at > r.created_at}) = i - 1]

\* The committed row of an order.
Stored(id) == CHOOSE r \in orders : r.id = id

TotalsBefore == [i \in 1..Len(TabBefore) |-> TabBefore[i].total]

TotalsAfter == [i \in 1..Len(TabBefore) |-> Stored(TabBefore[i].id).total]

Reductions ==
    [i \in 1..Len(TabBefore) |-> TotalsBefore[i] - TotalsAfter[i]]

DiscountIncreases ==
    [i \in 1..Len(TabBefore) |->
        ExistingDiscount(Stored(TabBefore[i].id))
            - ExistingDiscount(TabBefore[i])]

RECURSIVE SumSeq(_)
SumSeq(s) == IF s = <<>> THEN 0 ELSE Head(s) + SumSeq(Tail(s))

PositiveParts == [i \in 1..Len(TabBefore) |-> Max(0, TotalsBefore[i])]

C14_SumClipped ==
    (Closed200 /\ DiscountWanted)
    => LET d == close.body.discount[1]
           cap == SumSeq(PositiveParts)
       IN  /\ SumSeq(Reductions) = Min(d, cap)
           /\ SumSeq(DiscountIncreases) = Min(d, cap)
           /\ d > cap => \A i \in 1..Len(TabBefore) :
                             TotalsBefore[i] >= 0 => TotalsAfter[i] = 0

RECURSIVE Allocation(_, _)
\* applyHere of each order, newest first, for a remaining discount.
Allocation(totals, remaining) ==
    IF totals = <<>> THEN <<>>
    ELSE LET applyHere == Min(remaining, Max(0, Head(totals)))
         IN  <<applyHere>> \o Allocation(Tail(totals), remaining - applyHere)

\* C15: the discount is consumed newest first: each order is reduced by
\* applyHere = min(remaining, max(0, total)); an order has a positive share
\* only if every newer order with a positive total ended at 0; an order
\* with applyHere = 0 (total <= 0, or nothing remaining) keeps its total,
\* discount and discount reason.
C15_NewestFirst ==
    (Closed200 /\ DiscountWanted)
    => LET applyHere == Allocation(TotalsBefore, close.body.discount[1])
       IN  /\ Reductions = applyHere
           /\ DiscountIncreases = applyHere
           /\ \A i \in 1..Len(TabBefore) :
                  /\ Reductions[i] > 0
                         => \A j \in 1..(i - 1) :
                                TotalsBefore[j] > 0 => TotalsAfter[j] = 0
                  /\ applyHere[i] = 0
                         => LET r == Stored(TabBefore[i].id)
                            IN  /\ r.total = TabBefore[i].total
                                /\ r.discount = TabBefore[i].discount
                                /\ r.discount_reason
                                       = TabBefore[i].discount_reason

\* C16: the close is all or nothing.  Until the commit, and after a close
\* that failed, the committed orders and tabs are those the request found;
\* after a close answered 200 every write of the transaction is stored:
\* the tab is closed, each order the tab held has the payment method and
\* no open_account_id, and each row the transaction wrote is the stored
\* row.
C16_AllOrNothing ==
    /\ (close.pc # "idle" /\ ~Closed200)
           => (/\ orders = close.before.orders
               /\ open_accounts = close.before.open_accounts)
    /\ Closed200
           => (/\ open_accounts[close.id].status = "closed"
               /\ \A i \in 1..Len(TabBefore) :
                      LET r == Stored(TabBefore[i].id)
                      IN  /\ r.open_account_id = Null
                          /\ r.closed_open_account_id = Some(close.id)
                          /\ Some(r.payment_method) = close.body.paymentMethod
               /\ \A id \in DOMAIN close.writes :
                      Stored(id) = close.writes[id])

\* A close with a discount has failed at COMMIT, after the payment update,
\* the discount updates and the tab update.
C16_Witness ==
    /\ close.pc = "done"
    /\ close.status = 500
    /\ close.error = "commit"
    /\ DiscountWanted
    /\ Len(TabBefore) = 3

\* C17: no committed order has open_account_id equal to the id of a tab
\* whose status is closed.
C17_NoOrderOnClosedTab ==
    \A r \in orders :
        r.open_account_id # Null
            => open_accounts[r.open_account_id[1]].status # "closed"

\* ------------------------------------------------------------------------
\* Claims on the supply validation (SpecSupply)
\* ------------------------------------------------------------------------

\* The rules a body breaks, each looked at on its own: <<rule, step>>.
RulesBroken(supplyId, body) ==
    LET typed(t) == body.type # Null /\ body.type[1] = t
        lines == IF body.recipe = Null THEN {}
                 ELSE {k \in 1..Len(body.recipe[1]) :
                          /\ body.recipe[1][k].supplyId # Null
                          /\ body.recipe[1][k].quantity # Null}
    IN  {<<1, 1>> : x \in {1} \cap
                      (IF body.name = Null \/ body.type = Null THEN {1} ELSE {})}
        \cup {<<1, 2>> : x \in {1} \cap
                      (IF ~typed("purchased") /\ ~typed("composed")
                       THEN {1} ELSE {})}
        \cup {<<2, 1>> : x \in {1} \cap
                      (IF typed("purchased")
                          /\ body.unit \notin {Some(u) : u \in VALID_UNITS}
                       THEN {1} ELSE {})}
        \cup {<<2, 2>> : x \in {1} \cap
                      (IF typed("purchased")
                          /\ (body.purchaseQuantity = Null
                                 \/ body.purchaseQuantity[1] <= 0)
                       THEN {1} ELSE {})}
        \cup {<<3, 1>> : x \in {1} \cap
                      (IF typed("composed") /\ lines = {} THEN {1} ELSE {})}
        \cup {<<3, 2>> : x \in {1} \cap
                      (IF typed("composed")
                          /\ (\/ body.yieldAmount = Null
                              \/ body.yieldAmount[1] <= 0
                              \/ body.yieldUnit \notin {Some(u) : u \in VALID_UNITS})
                       THEN {1} ELSE {})}
        \cup {<<3, 3>> : x \in {1} \cap
                      (IF typed("composed")
                          /\ \E k \in lines :
                                 body.recipe[1][k].supplyId = Some(supplyId)
                       THEN {1} ELSE {})}

\* The earliest of a set of rules.
Earliest(rules) ==
    CHOOSE r \in rules :
        \A q \in rules : r[1] < q[1] \/ (r[1] = q[1] /\ r[2] <= q[2])

\* The rule an error message belongs to.
RuleOf(error) ==
    CASE error = "required" -> <<1, 1>>
      [] error = "type" -> <<1, 2>>
      [] error = "unit" -> <<2, 1>>
      [] error = "quantity" -> <<2, 2>>
      [] error = "recipe" -> <<3, 1>>
      [] error = "yield" -> <<3, 2>>
      [] error = "self" -> <<3, 3>>
      [] error = "circular" -> <<4, 1>>
      [] OTHER -> <<0, 0>>

\* C18: a create or update whose body breaks some of the rules (1) name,
\* type; (2) unit, purchaseQuantity; (3) recipe, yield, self-reference is
\* answered 400 with the error of the earliest rule broken; the
\* circular-reference error (4) is given only to a body that breaks none
\* of them and reaches a cycle; the same on create and on update.
C18_EarliestRuleWins ==
    IsWrite
    => LET broken == RulesBroken(last.id, last.body)
       IN  /\ broken # {}
                  => (last.status = 400
                        /\ RuleOf(last.error) = Earliest(broken))
           /\ last.error = "circular"
                  => (/\ broken = {}
                      /\ last.status = 400
                      /\ ReachesCycle(Prospective, last.id))
           /\ (broken = {} /\ last.status = 400)
                  => last.error = "circular"

\* A body without yield unit whose only line names the supply itself has
\* been rejected for its yield, on create and on update alike.
C18_Witness ==
    /\ IsWrite
    /\ RulesBroken(last.id, last.body) = {<<3, 2>>, <<3, 3>>}
    /\ last.body.yieldAmount = Some(10)
    /\ last.error = "yield"

\* C19: a create or update answered 400 leaves the stored supplies as they
\* were before the request.
C19_RejectedWritesNothing ==
    (IsWrite /\ last.status = 400) => supplies = last.before

\* An update of a stored supply has been rejected for its yield.
C19_Witness ==
    /\ last.op = "put"
    /\ last.status = 400
    /\ last.error = "yield"
    /\ last.before[last.id] # NoRow
    /\ last.before[last.id].type = "purchased"

\* Rows the candidate's id may have held before the request.
PriorRows ==
    {NoRow, PurchasedRow(Some(5), Some(1))}
    \cup {ComposedRow(StringifyLines(<<[supplyId |-> i, quantity |-> 1]>>),
                      Some(10)) : i \in SupplyIds}

\* C20: for a body that passes the field rules, the answer of the cycle
\* check is the one it gives on the snapshot with the candidate in place
\* of its id, whatever row that id held before; a candidate whose
\* prospective graph reaches no cycle is not rejected as circular even
\* when the stored row was on a cycle; and an update of a stored supply
\* whose new recipe closes a cycle through it is rejected as circular.
C20_CheckOnProspectiveGraph ==
    (IsWrite /\ HasCandidate /\ RulesError(last.id, last.body) = "none")
    => LET candidate == Candidate(last.id, last.body)
           circular == last.error = "circular"
       IN  /\ \A prior \in PriorRows :
                  CycleCheck([last.before EXCEPT ![last.id] = prior],
                             candidate) = circular
           /\ ~ReachesCycle(Prospective, last.id) => ~circular
           /\ (/\ last.op = "put"
               /\ last.before[last.id] # NoRow
               /\ ~OnCycle(SuppliesById(last.before), last.id)
               /\ OnCycle(Prospective, last.id)) => circular

\* The part of C20 about the prior row alone: the answer of the cycle
\* check is the same for every row the id may have held, and a candidate
\* that reaches no cycle is never rejected as circular.
PriorRecipeIgnored ==
    (IsWrite /\ HasCandidate /\ RulesError(last.id, last.body) = "none")
    => LET candidate == Candidate(last.id, last.body)
           circular == last.error = "circular"
       IN  /\ \A prior \in PriorRows :
                  CycleCheck([last.before EXCEPT ![last.id] = prior],
                             candidate) = circular
           /\ ~ReachesCycle(Prospective, last.id) => ~circular

\* ------------------------------------------------------------------------
\* Claims on the statement-level supply routes
\* ------------------------------------------------------------------------

\* A recipe of the menu or of another supply names the id.
Referenced(id) ==
    \/ \E m \in DOMAIN menu_items :
          /\ menu_items[m] # NoRow
          /\ \E k \in 1..Len(menu_items[m].lines) :
                menu_items[m].lines[k].supplyId = Some(id)
    \/ \E i \in DOMAIN SuppliesById(supplies) \ {id} :
          \E k \in 1..Len(SuppliesById(supplies)[i].recipe) :
              SuppliesById(supplies)[i].recipe[k].supplyId = id

\* C21: a supply row is removed only in a state where no menu recipe and no
\* other supply's recipe references its id, whatever create, update or menu
\* write runs at the same time as the delete.
C21_DeletedOnlyUnreferenced ==
    [][\A id \in SupplyIds :
          (supplies[id] # NoRow /\ supplies'[id] = NoRow) => ~Referenced(id)]_vars

\* C29: writes that each pass the cycle check, running at the same time,
\* never store recipes that form a cycle: the check and the write of a
\* request act on the same rows.
C29_NoCycleStored ==
    \A i \in DOMAIN SuppliesById(supplies) :
        ~OnCycle(SuppliesById(supplies), i)

\* ------------------------------------------------------------------------
\* Claims on the resolver, statement by statement
\* ------------------------------------------------------------------------

Walking == walk.pc \in {"call", "loop", "return", "throw"}

\* C22: no step of a resolution changes the snapshot it was given or the
\* table, whether it ends in a number, in Unknown or in the throw; and a
\* second resolution of the same supply on that snapshot gives the result
\* of the first.
C22_SnapshotUntouched ==
    /\ [][walk.pc # "idle" =>
              /\ walk'.suppliesById = walk.suppliesById
              /\ walk'.suppliesById = SuppliesById(supplies')
              /\ supplies' = supplies]_vars
    /\ [](walk.pc = "done" /\ walk.first # Null => walk.result = walk.first[1])

\* A second resolution of a two-line recipe ended in the throw again.
C22_Witness ==
    /\ walk.pc = "done"
    /\ walk.first # Null
    /\ walk.result.k = "throw"
    /\ Len(walk.suppliesById[walk.root].recipe) = 2

\* The ids on the path from the root to the call in progress.
PathIds == {walk.stack[k].id : k \in 1..Len(walk.stack)}

\* C30: every resolution ends, on cyclic snapshots too, and at no moment
\* are there more calls in progress, or more ids in a visited set, than
\* the snapshot has supplies.
C30_TerminatesWithinGraphSize ==
    /\ [](Walking =>
            /\ Len(walk.stack) <= Cardinality(DOMAIN walk.suppliesById)
            /\ Cardinality(PathIds) = Len(walk.stack)
            /\ \A k \in 1..Len(walk.stack) :
                  /\ walk.stack[k].visited
                         = {walk.stack[j].id : j \in 1..k}
                  /\ Cardinality(walk.stack[k].visited)
                         <= Cardinality(DOMAIN walk.suppliesById))
    /\ (walk.pc = "call" ~> walk.pc = "done")

\* A resolution on a cyclic snapshot ended after a path through every
\* supply.
C30_Witness ==
    /\ walk.pc = "throw"
    /\ Len(walk.stack) = Cardinality(DOMAIN walk.suppliesById)
    /\ Len(walk.stack) = 3

\* ------------------------------------------------------------------------
\* More claims about the resolver and the read endpoints (SpecCost)
\* ------------------------------------------------------------------------

\* C23: the throw happens only when some id repeats along a path from the
\* resolved supply, that is, when a recipe cycle can be reached from it;
\* when none can and the data are complete the result is a number, also
\* when a supply is reached along two branches or named twice in a recipe.
C23_ThrowOnlyOnRepeatedId ==
    last.op = "resolve" =>
        /\ last.result.k = "throw" => ReachesCycle(ById, last.id)
        /\ (~ReachesCycle(ById, last.id) /\ DataComplete(ById, last.id))
               => last.result.k = "num"

\* A is made of B and C, B of C (C is reached along two branches), and
\* the resolution of A gave a number.
C23_Witness ==
    /\ last.op = "resolve" /\ last.id = "A"
    /\ Successors(ById, "A") = {"B", "C"}
    /\ Successors(ById, "B") = {"C"}
    /\ ById["C"].type = "purchased"
    /\ last.result.k = "num"

\* The cost the resolver gives for a stored supply, a throw caught.
CostOf(id) ==
    LET c == getSupplyCostPerUnit(ById[id], ById, {})
    IN  IF c.k = "throw" THEN Unknown ELSE c

\* The item reports the cost exactly when there is a number, 0 included.
ReportsCost(item, id) ==
    IF CostOf(id).k = "num"
    THEN item.hasCost /\ item.costPerUnit = CostOf(id)
    ELSE ~item.hasCost

\* C24: GET /supplies and GET /supplies/:id return costPerUnit for every
\* supply whose cost is a number, the number 0 included, and leave it out
\* for a supply whose cost is Unknown or that is on a cycle.
C24_ZeroIsNotUnknown ==
    /\ last.op = "list" =>
          \A id \in DOMAIN last.items : ReportsCost(last.items[id], id)
    /\ (last.op = "get" /\ last.status = 200) => ReportsCost(last.item, last.id)

\* A purchased supply with price 0 and quantity 2 was returned with
\* costPerUnit 0, next to a supply returned without cost.
C24_Witness ==
    /\ last.op = "list"
    /\ \E id \in DOMAIN last.items :
          /\ ById[id].type = "purchased"
          /\ ById[id].purchase_price = Some(0)
          /\ ById[id].purchase_quantity = Some(2)
          /\ last.items[id].hasCost
          /\ last.items[id].costPerUnit = Zero
    /\ \E id \in DOMAIN last.items : ~last.items[id].hasCost

\* ------------------------------------------------------------------------
\* The data model of stored supplies (SpecSupply)
\* ------------------------------------------------------------------------

\* The stored row has the fields the data model requires of its kind.
SatisfiesDataModel(id, row) ==
    IF row.type = "purchased"
    THEN /\ row.purchase_quantity # Null /\ row.purchase_quantity[1] > 0
         /\ row.purchase_price # Null /\ row.purchase_price[1] >= 0
    ELSE /\ parseRecipe(row.recipe) # Null
         /\ Len(parseRecipe(row.recipe)[1]) >= 1
         /\ \A k \in 1..Len(parseRecipe(row.recipe)[1]) :
               LET line == parseRecipe(row.recipe)[1][k]
               IN  /\ line.quantity # Null /\ line.quantity[1] > 0
                   /\ line.supplyId # Some(id)
         /\ row.yield_amount # Null /\ row.yield_amount[1] > 0

\* C26: after any sequence of accepted creates and updates every stored
\* supply satisfies the data model of its kind.
C26_StoredSatisfiesDataModel ==
    \A id \in SupplyIds :
        supplies[id] # NoRow => SatisfiesDataModel(id, supplies[id])

\* ------------------------------------------------------------------------
\* Claims on the order ledger (SpecLedger) and on the close of a tab
\* ------------------------------------------------------------------------

\* C25: the total and the discount of a stored order change only at the
\* commit of the close of the tab the order is on; a status update, the
\* creation or deletion of another order and the close of another tab
\* leave them as they are.
C25_TotalChangesOnlyAtClose ==
    [][\A r \in orders : \A t \in orders' :
          (t.id = r.id /\ (t.total # r.total \/ t.discount # r.discount))
              => /\ close.pc = "commit"
                 /\ close'.pc = "done" /\ close'.status = 200
                 /\ r.open_account_id = Some(close.id)
                 /\ HasDiscount(close.body)]_vars

\* C27: after a close answered 200 the tab is closed, every order that was
\* on the tab carries the payment method of the request, the tab's id in
\* closed_open_account_id and no open_account_id, and no order of the tab
\* keeps the payment method 'cuenta_abierta'.
C27_CloseMovesEveryOrder ==
    Closed200 =>
        /\ open_accounts[close.id].status = "closed"
        /\ \A i \in 1..Len(TabBefore) :
              /\ Stored(TabBefore[i].id).payment_method
                     = close.body.paymentMethod[1]
              /\ Stored(TabBefore[i].id).closed_open_account_id
                     = Some(close.id)
              /\ Stored(TabBefore[i].id).open_account_id = Null
        /\ \A r \in orders :
              (\/ r.open_account_id = Some(close.id)
               \/ r.closed_open_account_id = Some(close.id))
                  => r.payment_method # "cuenta_abierta"

IsPrefix(p, t) == Len(p) <= Len(t) /\ SubSeq(t, 1, Len(p)) = p

IsSuffix(p, t) ==
    Len(p) <= Len(t) /\ SubSeq(t, Len(t) - Len(p) + 1, Len(t)) = p

\* "Descuento de la cuenta: <reason>"
Note == <<"Descuento de la cuenta: ">> \o Trim(close.body.discountReason[1])

\* The discount step wrote the i-th order of the tab.
Touched(i) == Stored(TabBefore[i].id).discount # TabBefore[i].discount

\* C28 as stated: a touched order's reason ends with the note and begins
\* with the reason stored before; an order not touched keeps its reason.
C28_NotePrefixedByStoredReason ==
    Closed200 =>
        \A i \in 1..Len(TabBefore) :
            IF Touched(i)
            THEN /\ Stored(TabBefore[i].id).discount_reason # Null
                 /\ IsSuffix(Note, Stored(TabBefore[i].id).discount_reason[1])
                 /\ TabBefore[i].discount_reason # Null =>
                        IsPrefix(TabBefore[i].discount_reason[1],
                                 Stored(TabBefore[i].id).discount_reason[1])
            ELSE Stored(TabBefore[i].id).discount_reason
                     = TabBefore[i].discount_reason

\* C28: a touched order's reason is the reason stored before, trimmed,
\* then one space, then the note; the note alone when no reason with text
\* was stored; an order not touched keeps its reason.
C28_NoteAfterTrimmedReason ==
    Closed200 =>
        \A i \in 1..Len(TabBefore) :
            IF Touched(i)
            THEN Stored(TabBefore[i].id).discount_reason =
                     Some(IF HasText(TabBefore[i].discount_reason)
                          THEN Trim(TabBefore[i].discount_reason[1])
                                   \o <<" ">> \o Note
                          ELSE Note)
            ELSE Stored(TabBefore[i].id).discount_reason
                     = TabBefore[i].discount_reason

\* A close touched an order that had a reason of its own and left another
\* order of the tab untouched.
C28_Witness ==
    /\ Closed200
    /\ \E i \in 1..Len(TabBefore) :
          Touched(i) /\ HasText(TabBefore[i].discount_reason)
    /\ \E i \in 1..Len(TabBefore) : ~Touched(i)

\* C33: an order the discount step wrote, whose total was >= 0 before the
\* close, still has a total >= 0 and the same total + discount: what was
\* added to discount is what was taken from total.
C33_DiscountTakenFromTotal ==
    Closed200 =>
        \A i \in 1..Len(TabBefore) :
            (Touched(i) /\ TabBefore[i].total >= 0) =>
                /\ Stored(TabBefore[i].id).total >= 0
                /\ Stored(TabBefore[i].id).total
                       + ExistingDiscount(Stored(TabBefore[i].id))
                   = TabBefore[i].total + ExistingDiscount(TabBefore[i])

\* C35: a step of the close handler leaves every order that is not on the
\* tab being closed unchanged in every field: total, discount and
\* discountReason change only on orders of that tab.
C35_OtherOrdersUntouched ==
    [][close' # close =>
          \A r \in orders :
              (close.pc # "idle" /\ r.open_account_id = Some(close.id))
                  \/ r \in orders']_vars

\* The body of the request passes the field rules and the cycle check.
PassesChecks ==
    /\ RulesError(last.id, last.body) = "none"
    /\ ~CycleCheck(last.before, Candidate(last.id, last.body))

\* C36 as stated: a create under an id that is stored is answered 409 and
\* an update of an id that is not stored is answered 404; neither changes
\* the stored supplies.
C36_ConflictAndNotFound ==
    /\ (last.op = "post" /\ last.before[last.id] # NoRow)
           => (last.status = 409 /\ supplies = last.before)
    /\ (last.op = "put" /\ last.before[last.id] = NoRow)
           => (last.status = 404 /\ supplies = last.before)

\* C36: a create under an id that is stored is answered 409 when its body
\* passes the field rules and the cycle check, 400 when it does not; an
\* update of an id that is not stored is answered 404 when its body passes
\* them, 400 when it does not; neither changes the stored supplies.
C36_ConflictAndNotFoundAfterChecks ==
    /\ (last.op = "post" /\ last.before[last.id] # NoRow)
           => /\ last.status = IF PassesChecks THEN 409 ELSE 400
              /\ supplies = last.before
    /\ (last.op = "put" /\ last.before[last.id] = NoRow)
           => /\ last.status = IF PassesChecks THEN 404 ELSE 400
              /\ supplies = last.before

\* A create under a stored id, with fields other than the stored ones, has
\* been answered 409.
C36_Witness ==
    /\ last.op = "post"
    /\ last.status = 409
    /\ last.before[last.id] # NoRow
    /\ StoredRow(last.body) # last.before[last.id]
    /\ supplies[last.id] = last.before[last.id]

\* C32: once a close of a tab has committed, no other close of that tab is
\* answered 200, no field of the tab record changes, and no order closed
\* with the tab changes its payment method, total, discount or
\* discountReason.
C32_ClosedAtMostOnce ==
    [][\A id \in TabIds :
          (open_accounts[id] # NoRow /\ open_accounts[id].status = "closed")
              => /\ open_accounts'[id] = open_accounts[id]
                 /\ (close.pc = "commit" /\ close.id = id /\ close'.pc = "done")
                        => close'.status # 200
                 /\ \A r \in orders :
                        r.closed_open_account_id = Some(id) =>
                            \E t \in orders' :
                                /\ t.id = r.id
                                /\ t.payment_method = r.payment_method
                                /\ t.total = r.total
                                /\ t.discount = r.discount
                                /\ t.discount_reason = r.discount_reason]_vars

\* The registers whose status is 'open'.
OpenRegisters ==
    {id \in DOMAIN cash_registers :
        cash_registers[id] # NoRow /\ cash_registers[id].status = "open"}

\* C37: at most one cash register is open at any time, and a closed
\* register is never reopened nor closed a second time.
C37_AtMostOneOpenRegister ==
    /\ [](Cardinality(OpenRegisters) <= 1)
    /\ [][\A id \in DOMAIN cash_registers :
             (cash_registers[id] # NoRow
                 /\ cash_registers[id].status = "closed")
                 => cash_registers'[id] = cash_registers[id]]_vars

\* C34: where the counter row exists its value is at least the number of
\* every stored order, the value never decreases, and no id is given to two
\* orders, the id of a deleted order included.
C34_CounterNeverBehind ==
    /\ [](order_counter # Null =>
             \A r \in orders : IdNumber(r.id) <= parseInt(order_counter[1]))
    /\ [][order_counter # Null =>
             /\ order_counter' # Null
             /\ parseInt(order_counter'[1]) >= parseInt(order_counter[1])]_vars
    /\ [](\A i, j \in 1..Len(committed) :
             i # j => committed[i].id # committed[j].id)

\* C31: with creations that failed on a conflict sent again from the start,
\* every creation request that entered its transaction is eventually
\* committed, and no two committed orders share an id or a request.
C31_RetriedCreationsCommit ==
    /\ \A p \in Clients :
          (tx[p].pc = "select_counter") ~> (tx[p].pc = "201")
    /\ [](\A i, j \in 1..Len(committed) :
             i # j => /\ committed[i].id # committed[j].id
                      /\ committed[i].request # committed[j].request)

\* A creation sent again after a conflict is about to commit, under the
\* number after the one it collided on.
C31_Witness ==
    \E p \in Clients :
        /\ tx[p].pc = "commit"
        /\ "retried" \in DOMAIN tx[p]
        /\ \E i \in 1..Len(committed) :
              committed[i].id = OrderId(tx[p].nextNum - 1)

====
